---------------------------- MODULE Spec2Model ----------------------------
(***************************************************************************)
(* Model of the multiplayer Ludo session engine: the GameManager (room     *)
(* registry, turn state machine, movement engine, weighted die) and the    *)
(* WebSocket router that dispatches inbound messages to it.                *)
(*                                                                         *)
(* JavaScript null is written Null ("null") for colours and winners and    *)
(* NullDice (0) for roll values; the code never stores the number 0 in a   *)
(* roll field.  Array indices stay 0-based as in the source; a TLA+        *)
(* sequence element is read with [i + 1].                                  *)
(***************************************************************************)
EXTENDS Integers, Sequences, FiniteSets, TLC

(* ------------------------------ bounds -------------------------------- *)

\* number of connections the transport ever opens (ids 1..MaxClients)
MaxClients == 3

\* number of connections open at the same time
MaxOpen == 2

\* number of events (connections, messages, disconnects) handled in a
\* behaviour that starts from the empty registry (Init)
MaxSteps == 9

\* number of events handled in a behaviour that starts from a game in
\* progress (InitMid)
MaxMidSteps == 4

(* ------------------------- program constants -------------------------- *)

PLAYER_COLORS_4P == <<"red", "green", "yellow", "blue">>

PLAYER_COLORS_2P == <<"red", "yellow">>

SAFE_SPOT_POSITIONS == {0, 8, 13, 21, 26, 34, 39, 47}

PLAYER_START_OFFSETS == [red |-> 0, green |-> 13, yellow |-> 26, blue |-> 39]

PlayerColor == {"red", "green", "yellow", "blue"}

GameMode == {"2-player", "4-player"}

\* room codes the generator can produce (stand-ins for 6 hex characters)
Codes == {"A"}

Clients == 1..MaxClients

Null == "null"

\* what a field reads as when the message does not carry it
Undefined == "undefined"

\* the names players type into the create and join forms: an ordinary name,
\* the empty string and a string of 21 characters
PlayerNames == <<"Al", "", "ABCDEFGHIJKLMNOPQRSTU">>

\* the playerName a connection puts in its create and join messages: each
\* connection keeps to one name
NamesOf(clientId) == {PlayerNames[((clientId - 1) % Len(PlayerNames)) + 1]}

NullDice == 0

NoPiece == [id |-> <<Null, 0>>, color |-> Null, position |-> -1, isSafe |-> TRUE]

\* piece ids a move_piece message can carry: every `${color}-${i}` and one
\* string that names no piece
PieceIds == (PlayerColor \X (0..3)) \cup {<<"bogus", 0>>}

(* ------------------------------ state --------------------------------- *)

VARIABLES
    rooms,          \* GameManager.rooms: code -> GameRoom (a Map: partial function)
    playerToRoom,   \* GameManager.playerToRoom: client id -> code (partial function)
    clients,        \* router's clients map: ids of the open connections
    nextId,         \* next fresh connection id (randomUUID never repeats)
    last,           \* the event handled last and what the manager returned
    sent,           \* messages the router sent while handling that event
    stepsLeft       \* events still explored in this behaviour

vars == <<rooms, playerToRoom, clients, nextId, last, sent, stepsLeft>>

(* ----------------------------- helpers -------------------------------- *)

SeqToSet(s) == {s[i] : i \in 1..Len(s)}

\* Map.set / Map.delete on a partial function
MapSet(m, k, v) == [x \in (DOMAIN m) \cup {k} |-> IF x = k THEN v ELSE m[x]]

MapDelete(m, k) == [x \in (DOMAIN m) \ {k} |-> m[x]]

\* index (1-based) of the first player with this id, 0 if none: Array.find
FindPlayer(players, playerId) ==
    IF \E i \in 1..Len(players) : players[i].id = playerId
    THEN CHOOSE i \in 1..Len(players) :
            /\ players[i].id = playerId
            /\ \A j \in 1..(i - 1) : players[j].id # playerId
    ELSE 0

(* ------------------------ GameManager: registry ------------------------ *)

\* the room the participant is mapped to, as the methods look it up:
\* playerToRoom.get(playerId) and then rooms.get(roomCode)
HasRoom(playerId) ==
    /\ playerId \in DOMAIN playerToRoom
    /\ playerToRoom[playerId] \in DOMAIN rooms

RoomOf(playerId) == rooms[playerToRoom[playerId]]

maxPlayers(room) == IF room.gameMode = "2-player" THEN 2 ELSE 4

NewPlayer(playerId, playerName) ==
    [id |-> playerId, name |-> playerName, color |-> Null, ready |-> FALSE]

NewGameState ==
    [pieces |-> <<>>, currentTurnIndex |-> 0, diceValue |-> NullDice,
     lastDiceValue |-> NullDice, isFirstRollOfTurn |-> TRUE,
     waitingForMove |-> FALSE, winner |-> Null, started |-> FALSE]

\* generateRoomCode drawing from the codes: any of them that is not
\* currently a key of rooms
generateRoomCodeFrom(codes) == codes \ DOMAIN rooms

\* generateRoomCode: any code not currently a key of rooms
generateRoomCode == generateRoomCodeFrom(Codes)

\* createRoom(playerId, playerName, gameMode = '4-player') with the generated
\* code
createRoom(playerId, playerName, gameMode, code) ==
    [rooms |-> MapSet(rooms, code,
                 [code |-> code, players |-> <<NewPlayer(playerId, playerName)>>,
                  gameMode |-> IF gameMode = Undefined THEN "4-player" ELSE gameMode,
                  gameState |-> NewGameState]),
     playerToRoom |-> MapSet(playerToRoom, playerId, code),
     err |-> "", ret |-> code]

\* joinRoom without the capacity test
joinRoom_NoCapacityCheck(roomCode, playerId, playerName) ==
    IF roomCode \notin DOMAIN rooms
    THEN [rooms |-> rooms, playerToRoom |-> playerToRoom, err |-> "", ret |-> Null]
    ELSE LET room == rooms[roomCode] IN
         IF room.gameState.started
         THEN [rooms |-> rooms, playerToRoom |-> playerToRoom,
               err |-> "Game already started", ret |-> Null]
         ELSE [rooms |-> [rooms EXCEPT ![roomCode].players =
                                        Append(room.players, NewPlayer(playerId, playerName))],
               playerToRoom |-> MapSet(playerToRoom, playerId, roomCode),
               err |-> "", ret |-> roomCode]

\* joinRoom without the test of gameState.started
joinRoom_NoStartedCheck(roomCode, playerId, playerName) ==
    IF roomCode \notin DOMAIN rooms
    THEN [rooms |-> rooms, playerToRoom |-> playerToRoom, err |-> "", ret |-> Null]
    ELSE LET room == rooms[roomCode] IN
         IF Len(room.players) >= maxPlayers(room)
         THEN [rooms |-> rooms, playerToRoom |-> playerToRoom,
               err |-> "Room is full", ret |-> Null]
         ELSE [rooms |-> [rooms EXCEPT ![roomCode].players =
                                        Append(room.players, NewPlayer(playerId, playerName))],
               playerToRoom |-> MapSet(playerToRoom, playerId, roomCode),
               err |-> "", ret |-> roomCode]

\* joinRoom(roomCode, playerId, playerName): null, a throw, or the room
joinRoom(roomCode, playerId, playerName) ==
    IF roomCode \notin DOMAIN rooms
    THEN [rooms |-> rooms, playerToRoom |-> playerToRoom, err |-> "", ret |-> Null]
    ELSE LET room == rooms[roomCode] IN
         IF Len(room.players) >= maxPlayers(room)
         THEN [rooms |-> rooms, playerToRoom |-> playerToRoom,
               err |-> "Room is full", ret |-> Null]
         ELSE IF room.gameState.started
         THEN [rooms |-> rooms, playerToRoom |-> playerToRoom,
               err |-> "Game already started", ret |-> Null]
         ELSE [rooms |-> [rooms EXCEPT ![roomCode].players =
                                        Append(room.players, NewPlayer(playerId, playerName))],
               playerToRoom |-> MapSet(playerToRoom, playerId, roomCode),
               err |-> "", ret |-> roomCode]

getAvailableColors(room) ==
    IF room.gameMode = "2-player" THEN PLAYER_COLORS_2P ELSE PLAYER_COLORS_4P

\* chooseColor without the test for a colour another player holds
chooseColor_NoTakenCheck(playerId, color) ==
    IF ~HasRoom(playerId)
    THEN [rooms |-> rooms, err |-> "", ret |-> Null]
    ELSE LET roomCode == playerToRoom[playerId]
             room == rooms[roomCode]
             i == FindPlayer(room.players, playerId)
         IN
         IF color \notin SeqToSet(getAvailableColors(room))
         THEN [rooms |-> rooms, err |-> "Color not available for this game mode",
               ret |-> Null]
         ELSE [rooms |-> IF i > 0
                         THEN [rooms EXCEPT ![roomCode].players[i].color = color]
                         ELSE rooms,
               err |-> "", ret |-> roomCode]

\* chooseColor(playerId, color)
chooseColor(playerId, color) ==
    IF ~HasRoom(playerId)
    THEN [rooms |-> rooms, err |-> "", ret |-> Null]
    ELSE LET roomCode == playerToRoom[playerId]
             room == rooms[roomCode]
             i == FindPlayer(room.players, playerId)
         IN
         IF color \notin SeqToSet(getAvailableColors(room))
         THEN [rooms |-> rooms, err |-> "Color not available for this game mode",
               ret |-> Null]
         ELSE IF \E j \in 1..Len(room.players) :
                     room.players[j].color = color /\ room.players[j].id # playerId
         THEN [rooms |-> rooms, err |-> "Color already taken", ret |-> Null]
         ELSE [rooms |-> IF i > 0
                         THEN [rooms EXCEPT ![roomCode].players[i].color = color]
                         ELSE rooms,
               err |-> "", ret |-> roomCode]

\* setReady(playerId)
setReady(playerId) ==
    IF ~HasRoom(playerId)
    THEN [rooms |-> rooms, err |-> "", ret |-> Null]
    ELSE LET roomCode == playerToRoom[playerId]
             room == rooms[roomCode]
             i == FindPlayer(room.players, playerId)
         IN
         [rooms |-> IF i > 0 /\ room.players[i].color # Null
                    THEN [rooms EXCEPT ![roomCode].players[i].ready = TRUE]
                    ELSE rooms,
          err |-> "", ret |-> roomCode]

\* canStartGame without the test of the ready flags
canStartGame_IgnoresReady(room) ==
    LET requiredPlayers == IF room.gameMode = "2-player" THEN 2 ELSE 2 IN
    /\ Len(room.players) >= requiredPlayers
    /\ Len(room.players) <= maxPlayers(room)
    /\ \A i \in 1..Len(room.players) : room.players[i].color # Null

canStartGame(room) ==
    LET requiredPlayers == IF room.gameMode = "2-player" THEN 2 ELSE 2 IN
    /\ Len(room.players) >= requiredPlayers
    /\ Len(room.players) <= maxPlayers(room)
    /\ \A i \in 1..Len(room.players) :
          room.players[i].color # Null /\ room.players[i].ready

\* the four pieces startGame pushes for one coloured player
PiecesOfPlayer(player) ==
    IF player.color # Null
    THEN [i \in 1..4 |-> [id |-> <<player.color, i - 1>>, color |-> player.color,
                          position |-> -1, isSafe |-> TRUE]]
    ELSE <<>>

RECURSIVE InitialPieces(_)
InitialPieces(players) ==
    IF players = <<>> THEN <<>>
    ELSE PiecesOfPlayer(Head(players)) \o InitialPieces(Tail(players))

\* startGame(playerId)
startGame(playerId) ==
    IF ~HasRoom(playerId)
    THEN [rooms |-> rooms, err |-> "", ret |-> Null]
    ELSE LET roomCode == playerToRoom[playerId]
             room == rooms[roomCode]
         IN
         IF ~canStartGame(room)
         THEN [rooms |-> rooms, err |-> "Not all players are ready", ret |-> Null]
         ELSE [rooms |-> [rooms EXCEPT ![roomCode].gameState =
                            [pieces |-> InitialPieces(room.players),
                             currentTurnIndex |-> 0, diceValue |-> NullDice,
                             lastDiceValue |-> NullDice, isFirstRollOfTurn |-> TRUE,
                             waitingForMove |-> FALSE, winner |-> Null,
                             started |-> TRUE]],
               err |-> "", ret |-> roomCode]

\* leaveRoom without the deletion of a room left empty
leaveRoom_KeepsEmptyRoom(playerId) ==
    IF ~HasRoom(playerId)
    THEN [rooms |-> rooms, playerToRoom |-> playerToRoom, ret |-> Null]
    ELSE LET roomCode == playerToRoom[playerId]
             room == rooms[roomCode]
             NotLeaver(p) == p.id # playerId
             remaining == SelectSeq(room.players, NotLeaver)
         IN
         [rooms |-> [rooms EXCEPT ![roomCode].players = remaining],
          playerToRoom |-> MapDelete(playerToRoom, playerId),
          ret |-> roomCode]

\* leaveRoom taking the leaver out of the player list of every room
leaveRoom_FromEveryRoom(playerId) ==
    IF ~HasRoom(playerId)
    THEN [rooms |-> rooms, playerToRoom |-> playerToRoom, ret |-> Null]
    ELSE LET NotLeaver(p) == p.id # playerId
             remaining(code) == SelectSeq(rooms[code].players, NotLeaver)
             kept == {code \in DOMAIN rooms : Len(remaining(code)) > 0}
         IN
         [rooms |-> [code \in kept |-> [rooms[code] EXCEPT !.players = remaining(code)]],
          playerToRoom |-> MapDelete(playerToRoom, playerId),
          ret |-> playerToRoom[playerId]]

\* leaveRoom(playerId): the affected room code or null
leaveRoom(playerId) ==
    IF ~HasRoom(playerId)
    THEN [rooms |-> rooms, playerToRoom |-> playerToRoom, ret |-> Null]
    ELSE LET roomCode == playerToRoom[playerId]
             room == rooms[roomCode]
             NotLeaver(p) == p.id # playerId
             remaining == SelectSeq(room.players, NotLeaver)
         IN
         [rooms |-> IF Len(remaining) = 0
                    THEN MapDelete(rooms, roomCode)
                    ELSE [rooms EXCEPT ![roomCode].players = remaining],
          playerToRoom |-> MapDelete(playerToRoom, playerId),
          ret |-> roomCode]

(* ------------------------ GameManager: the die ------------------------- *)

\* weights are kept in thousandths so that x/5, x*1.5 and x*0.875 stay exact
Milli == 1000

PiecesOfColor(pieces, color) ==
    LET IsColor(p) == p.color = color IN SelectSeq(pieces, IsColor)

allPiecesInBase(room) ==
    LET currentPlayer == room.players[room.gameState.currentTurnIndex + 1]
        playerPieces == PiecesOfColor(room.gameState.pieces, currentPlayer.color)
    IN \A i \in 1..Len(playerPieces) : playerPieces[i].position = -1

\* rollWeightedDice handing every other face the same share of the weight
\* taken from the previous roll
rollWeights_EvenShares(inBase, lastRoll, isFirstRoll) ==
    LET weights == <<15 * Milli, 15 * Milli, 15 * Milli, 15 * Milli, 15 * Milli, 25 * Milli>> IN
    IF inBase
    THEN <<10 * Milli, 10 * Milli, 10 * Milli, 10 * Milli, 10 * Milli, 50 * Milli>>
    ELSE IF lastRoll # NullDice /\ isFirstRoll
    THEN LET originalWeight == weights[lastRoll]
             reducedWeight == 2 * Milli
             weightToRedistribute == originalWeight - reducedWeight
             baseExtraPerNumber == weightToRedistribute \div 5
         IN
         IF weightToRedistribute > 0
         THEN [f \in 1..6 |->
                 IF f = lastRoll THEN reducedWeight
                 ELSE weights[f] + baseExtraPerNumber]
         ELSE weights
    ELSE weights

\* the weight vector of rollWeightedDice before normalisation
rollWeights(inBase, lastRoll, isFirstRoll) ==
    LET weights == <<15 * Milli, 15 * Milli, 15 * Milli, 15 * Milli, 15 * Milli, 25 * Milli>> IN
    IF inBase
    THEN <<10 * Milli, 10 * Milli, 10 * Milli, 10 * Milli, 10 * Milli, 50 * Milli>>
    ELSE IF lastRoll # NullDice /\ isFirstRoll
    THEN LET originalWeight == weights[lastRoll]
             reducedWeight == 2 * Milli
             weightToRedistribute == originalWeight - reducedWeight
             baseExtraPerNumber == weightToRedistribute \div 5
         IN
         IF weightToRedistribute > 0
         THEN [f \in 1..6 |->
                 IF f = lastRoll THEN reducedWeight
                 ELSE IF f = 6 THEN weights[f] + (baseExtraPerNumber * 3) \div 2
                 ELSE weights[f] + (baseExtraPerNumber * 7) \div 8]
         ELSE weights
    ELSE weights

\* weights.reduce((sum, w) => sum + w, 0)
totalWeight(w) == w[1] + w[2] + w[3] + w[4] + w[5] + w[6]

\* normalizedWeights without the division by the total
normalizedWeights_Unnormalised(w) ==
    [f \in 1..6 |-> [num |-> w[f], den |-> Milli]]

\* weights.map(w => (w / totalWeight) * 100), each entry as the exact
\* fraction num / den
normalizedWeights(w) ==
    [f \in 1..6 |-> [num |-> w[f] * 100, den |-> totalWeight(w)]]

\* the normalised weight vector rollWeightedDice samples from for the room
weightsOf(room) ==
    normalizedWeights(rollWeights(allPiecesInBase(room), room.gameState.lastDiceValue,
                                  room.gameState.isFirstRollOfTurn))

\* the faces the sampling loop can return: a uniform draw in [0,100) selects
\* face f when it falls in f's slice of the cumulative weights, and face 1
\* (the initial value of roll) when the draw is exactly 0 or no slice is hit
rollWeightedDice(room) ==
    LET nw == weightsOf(room)
    IN {f \in 1..6 : nw[f].num > 0} \cup {1}

(* --------------------- GameManager: movement engine -------------------- *)

\* canMovePiece without the overshoot test (position + roll > 57)
canMovePiece_NoOvershootTest(piece, roll) ==
    IF piece.position = -1 THEN roll = 6 ELSE TRUE

\* canMovePiece letting a base piece out on any roll
canMovePiece_BaseLeavesOnAnyRoll(piece, roll) ==
    IF piece.position = -1 THEN TRUE
    ELSE IF piece.position + roll > 57 THEN FALSE
    ELSE TRUE

canMovePiece(piece, roll) ==
    IF piece.position = -1 THEN roll = 6
    ELSE IF piece.position + roll > 57 THEN FALSE
    ELSE TRUE

getAbsoluteTrackPosition(piece) ==
    IF piece.position < 0 \/ piece.position > 50 THEN -1
    ELSE (piece.position + PLAYER_START_OFFSETS[piece.color]) % 52

\* isPieceOnSafeSpot without the home path: only base, finish and the safe
\* cells of the track count
isPieceOnSafeSpot_HomePathUnsafe(piece) ==
    IF piece.position < 0 THEN TRUE
    ELSE IF piece.position = 99 THEN TRUE
    ELSE getAbsoluteTrackPosition(piece) \in SAFE_SPOT_POSITIONS

isPieceOnSafeSpot(piece) ==
    IF piece.position >= 51 THEN TRUE
    ELSE IF piece.position < 0 THEN TRUE
    ELSE IF piece.position = 99 THEN TRUE
    ELSE getAbsoluteTrackPosition(piece) \in SAFE_SPOT_POSITIONS

arePiecesOnSamePosition(piece1, piece2) ==
    IF piece1.position < 0 \/ piece1.position > 50 THEN FALSE
    ELSE IF piece2.position < 0 \/ piece2.position > 50 THEN FALSE
    ELSE getAbsoluteTrackPosition(piece1) = getAbsoluteTrackPosition(piece2)

\* index of the first piece with this id, 0 if none: pieces.find
FindPiece(pieces, pieceId) ==
    IF \E i \in 1..Len(pieces) : pieces[i].id = pieceId
    THEN CHOOSE i \in 1..Len(pieces) :
            /\ pieces[i].id = pieceId
            /\ \A j \in 1..(i - 1) : pieces[j].id # pieceId
    ELSE 0

\* the capture loop of movePiece without the safe-cell test
\* (isLandingSpotSafe)
CaptureIndex_IgnoresSafeCells(pieces, k) ==
    LET piece == pieces[k]
        absolutePos == getAbsoluteTrackPosition(piece)
        Hit(j) == /\ pieces[j].id # piece.id
                  /\ pieces[j].color # piece.color
                  /\ ~(pieces[j].position < 0 \/ pieces[j].position > 50)
                  /\ getAbsoluteTrackPosition(pieces[j]) = absolutePos
    IN
    IF /\ piece.position >= 0 /\ piece.position <= 50
       /\ \E j \in 1..Len(pieces) : Hit(j)
    THEN CHOOSE j \in 1..Len(pieces) : Hit(j) /\ \A h \in 1..(j - 1) : ~Hit(h)
    ELSE 0

\* which piece the capture loop of movePiece sends home, given the piece list
\* after the mover's advance: the first opposing main-track piece on the
\* mover's absolute cell; 0 if the loop does not run or finds none
CaptureIndex(pieces, k) ==
    LET piece == pieces[k]
        absolutePos == getAbsoluteTrackPosition(piece)
        Hit(j) == /\ pieces[j].id # piece.id
                  /\ pieces[j].color # piece.color
                  /\ ~(pieces[j].position < 0 \/ pieces[j].position > 50)
                  /\ getAbsoluteTrackPosition(pieces[j]) = absolutePos
    IN
    IF /\ piece.position >= 0 /\ piece.position <= 50
       /\ absolutePos \notin SAFE_SPOT_POSITIONS
       /\ \E j \in 1..Len(pieces) : Hit(j)
    THEN CHOOSE j \in 1..Len(pieces) : Hit(j) /\ \A h \in 1..(j - 1) : ~Hit(h)
    ELSE 0

\* the turn hand-over both rollDice and movePiece perform
nextTurnIndex(room) == (room.gameState.currentTurnIndex + 1) % Len(room.players)

(* -------------------- GameManager: turn state machine ------------------ *)

\* reading .id of room.players[currentTurnIndex] when that element is
\* undefined throws this TypeError
UndefinedPlayerError == "Cannot read properties of undefined (reading 'id')"

\* rollDice with the clearing of diceValue moved out of the no-valid-move
\* branch, so that the roll is cleared on every path
rollDiceState_AlwaysClearsRoll(room, roll) ==
    LET gs == room.gameState
        currentPlayer == room.players[gs.currentTurnIndex + 1]
        playerPieces == PiecesOfColor(gs.pieces, currentPlayer.color)
        hasValidMoves == \E i \in 1..Len(playerPieces) : canMovePiece(playerPieces[i], roll)
    IN
    IF hasValidMoves
    THEN [gs EXCEPT !.diceValue = NullDice, !.isFirstRollOfTurn = FALSE,
                    !.waitingForMove = TRUE]
    ELSE IF roll # 6
    THEN [gs EXCEPT !.diceValue = NullDice, !.lastDiceValue = roll,
                    !.isFirstRollOfTurn = TRUE,
                    !.currentTurnIndex = nextTurnIndex(room)]
    ELSE [gs EXCEPT !.diceValue = NullDice, !.isFirstRollOfTurn = FALSE]

\* rollDice handing the turn over after every roll without a legal move, the
\* 6 included
rollDiceState_AdvancesOnSix(room, roll) ==
    LET gs == room.gameState
        currentPlayer == room.players[gs.currentTurnIndex + 1]
        playerPieces == PiecesOfColor(gs.pieces, currentPlayer.color)
        hasValidMoves == \E i \in 1..Len(playerPieces) : canMovePiece(playerPieces[i], roll)
    IN
    IF hasValidMoves
    THEN [gs EXCEPT !.diceValue = roll, !.isFirstRollOfTurn = FALSE,
                    !.waitingForMove = TRUE]
    ELSE [gs EXCEPT !.diceValue = NullDice, !.lastDiceValue = roll,
                    !.isFirstRollOfTurn = TRUE,
                    !.currentTurnIndex = nextTurnIndex(room)]

\* the game state rollDice leaves behind once the roll is drawn
rollDiceState(room, roll) ==
    LET gs == room.gameState
        currentPlayer == room.players[gs.currentTurnIndex + 1]
        playerPieces == PiecesOfColor(gs.pieces, currentPlayer.color)
        hasValidMoves == \E i \in 1..Len(playerPieces) : canMovePiece(playerPieces[i], roll)
    IN
    IF hasValidMoves
    THEN [gs EXCEPT !.diceValue = roll, !.isFirstRollOfTurn = FALSE,
                    !.waitingForMove = TRUE]
    ELSE IF roll # 6
    THEN [gs EXCEPT !.diceValue = NullDice, !.lastDiceValue = roll,
                    !.isFirstRollOfTurn = TRUE,
                    !.currentTurnIndex = nextTurnIndex(room)]
    ELSE [gs EXCEPT !.diceValue = NullDice, !.isFirstRollOfTurn = FALSE]

\* rollDice(playerId), with the face the weighted die produced
rollDice(playerId, roll) ==
    IF ~HasRoom(playerId) \/ ~RoomOf(playerId).gameState.started
    THEN [rooms |-> rooms, err |-> "", ret |-> Null, roll |-> 0]
    ELSE LET roomCode == playerToRoom[playerId]
             room == rooms[roomCode]
             gs == room.gameState
         IN
         IF gs.currentTurnIndex + 1 > Len(room.players)
         THEN [rooms |-> rooms, err |-> UndefinedPlayerError, ret |-> Null, roll |-> 0]
         ELSE IF room.players[gs.currentTurnIndex + 1].id # playerId
         THEN [rooms |-> rooms, err |-> "Not your turn", ret |-> Null, roll |-> 0]
         ELSE IF gs.waitingForMove
         THEN [rooms |-> rooms, err |-> "Already rolled, make your move",
               ret |-> Null, roll |-> 0]
         ELSE [rooms |-> [rooms EXCEPT ![roomCode].gameState = rollDiceState(room, roll)],
               err |-> "", ret |-> roomCode, roll |-> roll]

\* movePiece granting another turn for a 6 only, not for a capture
movePieceState_NoCaptureBonus(room, k) ==
    LET gs == room.gameState
        currentPlayer == room.players[gs.currentTurnIndex + 1]
        roll == gs.diceValue
        piece == gs.pieces[k]
        newPosition == IF piece.position = -1 THEN 0 ELSE piece.position + roll
        advanced == [piece EXCEPT !.position = newPosition]
        moved == [advanced EXCEPT !.isSafe = isPieceOnSafeSpot(advanced)]
        pieces1 == [gs.pieces EXCEPT ![k] = moved]
        c == CaptureIndex(pieces1, k)
        capturedPiece == IF c > 0 THEN pieces1[c] ELSE NoPiece
        pieces2 == IF c > 0
                   THEN [pieces1 EXCEPT ![c].position = -1, ![c].isSafe = TRUE]
                   ELSE pieces1
        pieces3 == IF pieces2[k].position = 57
                   THEN [pieces2 EXCEPT ![k].position = 99, ![k].isSafe = TRUE]
                   ELSE pieces2
        playerPieces == PiecesOfColor(pieces3, currentPlayer.color)
        winner == IF \A i \in 1..Len(playerPieces) : playerPieces[i].position = 99
                  THEN currentPlayer.color
                  ELSE gs.winner
        getAnotherTurn == roll = 6
    IN
    [gameState |->
        IF ~getAnotherTurn /\ winner = Null
        THEN [gs EXCEPT !.pieces = pieces3, !.winner = winner,
                        !.waitingForMove = FALSE, !.lastDiceValue = roll,
                        !.isFirstRollOfTurn = TRUE,
                        !.currentTurnIndex = nextTurnIndex(room),
                        !.diceValue = NullDice]
        ELSE [gs EXCEPT !.pieces = pieces3, !.winner = winner,
                        !.waitingForMove = FALSE, !.diceValue = NullDice],
     captured |-> capturedPiece]

\* movePiece without the check for a winner after the move
movePieceState_NoWinnerCheck(room, k) ==
    LET gs == room.gameState
        currentPlayer == room.players[gs.currentTurnIndex + 1]
        roll == gs.diceValue
        piece == gs.pieces[k]
        newPosition == IF piece.position = -1 THEN 0 ELSE piece.position + roll
        advanced == [piece EXCEPT !.position = newPosition]
        moved == [advanced EXCEPT !.isSafe = isPieceOnSafeSpot(advanced)]
        pieces1 == [gs.pieces EXCEPT ![k] = moved]
        c == CaptureIndex(pieces1, k)
        capturedPiece == IF c > 0 THEN pieces1[c] ELSE NoPiece
        pieces2 == IF c > 0
                   THEN [pieces1 EXCEPT ![c].position = -1, ![c].isSafe = TRUE]
                   ELSE pieces1
        pieces3 == IF pieces2[k].position = 57
                   THEN [pieces2 EXCEPT ![k].position = 99, ![k].isSafe = TRUE]
                   ELSE pieces2
        playerPieces == PiecesOfColor(pieces3, currentPlayer.color)
        winner == gs.winner
        getAnotherTurn == roll = 6 \/ c > 0
    IN
    [gameState |->
        IF ~getAnotherTurn /\ winner = Null
        THEN [gs EXCEPT !.pieces = pieces3, !.winner = winner,
                        !.waitingForMove = FALSE, !.lastDiceValue = roll,
                        !.isFirstRollOfTurn = TRUE,
                        !.currentTurnIndex = nextTurnIndex(room),
                        !.diceValue = NullDice]
        ELSE [gs EXCEPT !.pieces = pieces3, !.winner = winner,
                        !.waitingForMove = FALSE, !.diceValue = NullDice],
     captured |-> capturedPiece]

\* the game state and the captured piece movePiece produces for a legal move
\* of the piece at index k
movePieceState(room, k) ==
    LET gs == room.gameState
        currentPlayer == room.players[gs.currentTurnIndex + 1]
        roll == gs.diceValue
        piece == gs.pieces[k]
        newPosition == IF piece.position = -1 THEN 0 ELSE piece.position + roll
        advanced == [piece EXCEPT !.position = newPosition]
        moved == [advanced EXCEPT !.isSafe = isPieceOnSafeSpot(advanced)]
        pieces1 == [gs.pieces EXCEPT ![k] = moved]
        c == CaptureIndex(pieces1, k)
        capturedPiece == IF c > 0 THEN pieces1[c] ELSE NoPiece
        pieces2 == IF c > 0
                   THEN [pieces1 EXCEPT ![c].position = -1, ![c].isSafe = TRUE]
                   ELSE pieces1
        pieces3 == IF pieces2[k].position = 57
                   THEN [pieces2 EXCEPT ![k].position = 99, ![k].isSafe = TRUE]
                   ELSE pieces2
        playerPieces == PiecesOfColor(pieces3, currentPlayer.color)
        winner == IF \A i \in 1..Len(playerPieces) : playerPieces[i].position = 99
                  THEN currentPlayer.color
                  ELSE gs.winner
        getAnotherTurn == roll = 6 \/ c > 0
    IN
    [gameState |->
        IF ~getAnotherTurn /\ winner = Null
        THEN [gs EXCEPT !.pieces = pieces3, !.winner = winner,
                        !.waitingForMove = FALSE, !.lastDiceValue = roll,
                        !.isFirstRollOfTurn = TRUE,
                        !.currentTurnIndex = nextTurnIndex(room),
                        !.diceValue = NullDice]
        ELSE [gs EXCEPT !.pieces = pieces3, !.winner = winner,
                        !.waitingForMove = FALSE, !.diceValue = NullDice],
     captured |-> capturedPiece]

\* movePiece without the colour test on the piece
movePiece_AnyColour(playerId, pieceId) ==
    IF ~HasRoom(playerId) \/ ~RoomOf(playerId).gameState.started
    THEN [rooms |-> rooms, err |-> "", ret |-> Null, captured |-> NoPiece]
    ELSE LET roomCode == playerToRoom[playerId]
             room == rooms[roomCode]
             gs == room.gameState
             k == FindPiece(gs.pieces, pieceId)
         IN
         IF gs.currentTurnIndex + 1 > Len(room.players)
         THEN [rooms |-> rooms, err |-> UndefinedPlayerError, ret |-> Null,
               captured |-> NoPiece]
         ELSE IF room.players[gs.currentTurnIndex + 1].id # playerId
         THEN [rooms |-> rooms, err |-> "Not your turn", ret |-> Null,
               captured |-> NoPiece]
         ELSE IF ~gs.waitingForMove \/ gs.diceValue = NullDice
         THEN [rooms |-> rooms, err |-> "Roll the dice first", ret |-> Null,
               captured |-> NoPiece]
         ELSE IF k = 0
         THEN [rooms |-> rooms, err |-> "Invalid piece", ret |-> Null,
               captured |-> NoPiece]
         ELSE IF ~canMovePiece(gs.pieces[k], gs.diceValue)
         THEN [rooms |-> rooms, err |-> "Invalid move", ret |-> Null,
               captured |-> NoPiece]
         ELSE LET m == movePieceState(room, k) IN
              [rooms |-> [rooms EXCEPT ![roomCode].gameState = m.gameState],
               err |-> "", ret |-> roomCode, captured |-> m.captured]

\* movePiece(playerId, pieceId)
movePiece(playerId, pieceId) ==
    IF ~HasRoom(playerId) \/ ~RoomOf(playerId).gameState.started
    THEN [rooms |-> rooms, err |-> "", ret |-> Null, captured |-> NoPiece]
    ELSE LET roomCode == playerToRoom[playerId]
             room == rooms[roomCode]
             gs == room.gameState
             k == FindPiece(gs.pieces, pieceId)
         IN
         IF gs.currentTurnIndex + 1 > Len(room.players)
         THEN [rooms |-> rooms, err |-> UndefinedPlayerError, ret |-> Null,
               captured |-> NoPiece]
         ELSE IF room.players[gs.currentTurnIndex + 1].id # playerId
         THEN [rooms |-> rooms, err |-> "Not your turn", ret |-> Null,
               captured |-> NoPiece]
         ELSE IF ~gs.waitingForMove \/ gs.diceValue = NullDice
         THEN [rooms |-> rooms, err |-> "Roll the dice first", ret |-> Null,
               captured |-> NoPiece]
         ELSE IF k = 0 \/ gs.pieces[k].color # room.players[gs.currentTurnIndex + 1].color
         THEN [rooms |-> rooms, err |-> "Invalid piece", ret |-> Null,
               captured |-> NoPiece]
         ELSE IF ~canMovePiece(gs.pieces[k], gs.diceValue)
         THEN [rooms |-> rooms, err |-> "Invalid move", ret |-> Null,
               captured |-> NoPiece]
         ELSE LET m == movePieceState(room, k) IN
              [rooms |-> [rooms EXCEPT ![roomCode].gameState = m.gameState],
               err |-> "", ret |-> roomCode, captured |-> m.captured]

(* ------------------------------ router -------------------------------- *)

\* a WSResponse on the connection of client `to`; the payload fields a
\* response type does not carry are Null / NoPiece
Msg(to, type, message) ==
    [to |-> to, type |-> type, message |-> message, room |-> Null,
     capturedPiece |-> NoPiece]

\* payload: { room } written from the room as it was before the operation
\* changed it
WithRoom_BeforeOperation(msgs, room) ==
    [i \in 1..Len(msgs) |->
        [msgs[i] EXCEPT !.room = IF room.code \in DOMAIN rooms
                                 THEN rooms[room.code] ELSE room]]

\* payload: { room }: JSON.stringify in send() writes the room as it is when
\* the message is sent
WithRoom(msgs, room) == [i \in 1..Len(msgs) |-> [msgs[i] EXCEPT !.room = room]]

\* a piece_captured broadcast that leaves out the captured piece
WithCapturedPiece_Unnamed(msgs, piece) == msgs

\* payload: { capturedPiece, ... }
WithCapturedPiece(msgs, piece) ==
    [i \in 1..Len(msgs) |-> [msgs[i] EXCEPT !.capturedPiece = piece]]

\* sendError(ws, message) on the connection of clientId
sendError(clientId, message) == <<Msg(clientId, "error", message)>>

\* broadcastToRoom(roomCode, message, excludeClientId) over the registry rs:
\* one message per entry of the player list, in list order, to every entry
\* whose id is not excluded and has an open connection
RECURSIVE BroadcastTo(_, _, _, _)
BroadcastTo(players, type, excludeClientId, open) ==
    IF players = <<>> THEN <<>>
    ELSE (IF Head(players).id # excludeClientId /\ Head(players).id \in open
          THEN <<Msg(Head(players).id, type, "")>> ELSE <<>>)
         \o BroadcastTo(Tail(players), type, excludeClientId, open)

\* broadcastToRoom reading the room as it was before the operation
broadcastToRoom_StaleSnapshot(rs, roomCode, type, excludeClientId, open) ==
    IF roomCode \notin DOMAIN rooms THEN <<>>
    ELSE WithRoom(BroadcastTo(rooms[roomCode].players, type, excludeClientId, open),
                  rooms[roomCode])

broadcastToRoom(rs, roomCode, type, excludeClientId, open) ==
    IF roomCode \notin DOMAIN rs THEN <<>>
    ELSE WithRoom(BroadcastTo(rs[roomCode].players, type, excludeClientId, open),
                  rs[roomCode])

NoClient == 0

Last(op, clientId, err, ret, roll, captured) ==
    [op |-> op, client |-> clientId, err |-> err, ret |-> ret, roll |-> roll,
     captured |-> captured]

\* every event uses up one step of the exploration budget
Step == stepsLeft > 0 /\ stepsLeft' = stepsLeft - 1

\* wss.on('connection'): a fresh id is registered in clients
Connect ==
    /\ Step
    /\ nextId <= MaxClients
    /\ Cardinality(clients) < MaxOpen
    /\ clients' = clients \cup {nextId}
    /\ nextId' = nextId + 1
    /\ last' = Last("connection", nextId, "", Null, 0, NoPiece)
    /\ sent' = <<>>
    /\ UNCHANGED <<rooms, playerToRoom>>

\* case 'create', the generator drawing from the codes
HandleCreateFrom(codes, clientId, playerName, gameMode) ==
    /\ Step
    /\ clientId \in clients
    /\ \E code \in generateRoomCodeFrom(codes) :
         LET r == createRoom(clientId, playerName, gameMode, code) IN
         /\ rooms' = r.rooms
         /\ playerToRoom' = r.playerToRoom
         /\ last' = Last("create", clientId, "", code, 0, NoPiece)
         /\ sent' = WithRoom(<<Msg(clientId, "room_created", "")>>, r.rooms[code])
    /\ UNCHANGED <<clients, nextId>>

\* case 'create'
HandleCreate(clientId, playerName, gameMode) ==
    HandleCreateFrom(Codes, clientId, playerName, gameMode)

\* case 'join'
HandleJoin(clientId, roomCode, playerName) ==
    /\ Step
    /\ clientId \in clients
    /\ LET r == joinRoom(roomCode, clientId, playerName) IN
         /\ rooms' = r.rooms
         /\ playerToRoom' = r.playerToRoom
         /\ last' = Last("join", clientId, r.err, r.ret, 0, NoPiece)
         /\ sent' = IF r.err # "" THEN sendError(clientId, r.err)
                    ELSE IF r.ret = Null THEN sendError(clientId, "Room not found")
                    ELSE WithRoom(<<Msg(clientId, "room_joined", "")>>, r.rooms[r.ret])
                         \o broadcastToRoom(r.rooms, r.ret, "room_updated", clientId, clients)
    /\ UNCHANGED <<clients, nextId>>

\* the shared reply with a broadcast to the sender's room added to the error
Reply_BroadcastsOnError(clientId, r, type) ==
    IF r.err # ""
    THEN sendError(clientId, r.err)
         \o (IF HasRoom(clientId)
             THEN broadcastToRoom(r.rooms, playerToRoom[clientId], type, NoClient, clients)
             ELSE <<>>)
    ELSE IF r.ret = Null THEN <<>>
    ELSE broadcastToRoom(r.rooms, r.ret, type, NoClient, clients)

\* the shared reply answering a null of the manager with an error
Reply_ErrorOnNull(clientId, r, type) ==
    IF r.err # "" THEN sendError(clientId, r.err)
    ELSE IF r.ret = Null THEN sendError(clientId, "Room not found")
    ELSE broadcastToRoom(r.rooms, r.ret, type, NoClient, clients)

\* the reply shared by choose_color, ready, start_game and roll_dice: an
\* error to the sender on a throw, a broadcast when a room came back,
\* nothing when the manager returned null
Reply(clientId, r, type) ==
    IF r.err # "" THEN sendError(clientId, r.err)
    ELSE IF r.ret = Null THEN <<>>
    ELSE broadcastToRoom(r.rooms, r.ret, type, NoClient, clients)

\* case 'choose_color'
HandleChooseColor(clientId, color) ==
    /\ Step
    /\ clientId \in clients
    /\ LET r == chooseColor(clientId, color) IN
         /\ rooms' = r.rooms
         /\ last' = Last("choose_color", clientId, r.err, r.ret, 0, NoPiece)
         /\ sent' = Reply(clientId, r, "room_updated")
    /\ UNCHANGED <<playerToRoom, clients, nextId>>

\* case 'ready'
HandleReady(clientId) ==
    /\ Step
    /\ clientId \in clients
    /\ LET r == setReady(clientId) IN
         /\ rooms' = r.rooms
         /\ last' = Last("ready", clientId, r.err, r.ret, 0, NoPiece)
         /\ sent' = Reply(clientId, r, "room_updated")
    /\ UNCHANGED <<playerToRoom, clients, nextId>>

\* case 'start_game'
HandleStartGame(clientId) ==
    /\ Step
    /\ clientId \in clients
    /\ LET r == startGame(clientId) IN
         /\ rooms' = r.rooms
         /\ last' = Last("start_game", clientId, r.err, r.ret, 0, NoPiece)
         /\ sent' = Reply(clientId, r, "game_started")
    /\ UNCHANGED <<playerToRoom, clients, nextId>>

\* case 'roll_dice'; the face is one the weighted die can produce
HandleRollDice(clientId) ==
    /\ Step
    /\ clientId \in clients
    /\ \E roll \in 1..6 :
         LET r == rollDice(clientId, roll) IN
         /\ r.ret # Null => roll \in rollWeightedDice(RoomOf(clientId))
         /\ rooms' = r.rooms
         /\ last' = Last("roll_dice", clientId, r.err, r.ret, r.roll, NoPiece)
         /\ sent' = Reply(clientId, r, "room_updated")
    /\ UNCHANGED <<playerToRoom, clients, nextId>>

\* case 'move_piece'
HandleMovePiece(clientId, pieceId) ==
    /\ Step
    /\ clientId \in clients
    /\ LET r == movePiece(clientId, pieceId) IN
         /\ rooms' = r.rooms
         /\ last' = Last("move_piece", clientId, r.err, r.ret, 0, r.captured)
         /\ sent' = Reply(clientId, r, "room_updated")
                    \o (IF r.err = "" /\ r.ret # Null /\ r.captured # NoPiece
                        THEN WithCapturedPiece(
                                 broadcastToRoom(r.rooms, r.ret, "piece_captured",
                                                 NoClient, clients),
                                 r.captured)
                        ELSE <<>>)
    /\ UNCHANGED <<playerToRoom, clients, nextId>>

\* case 'leave'
HandleLeave(clientId) ==
    /\ Step
    /\ clientId \in clients
    /\ LET r == leaveRoom(clientId) IN
         /\ rooms' = r.rooms
         /\ playerToRoom' = r.playerToRoom
         /\ last' = Last("leave", clientId, "", r.ret, 0, NoPiece)
         /\ sent' = IF r.ret = Null THEN <<>>
                    ELSE broadcastToRoom(r.rooms, r.ret, "room_updated", NoClient, clients)
    /\ UNCHANGED <<clients, nextId>>

\* ws.on('close') that only forgets the connection
Close_ForgetsConnectionOnly(clientId) ==
    /\ Step
    /\ clientId \in clients
    /\ last' = Last("close", clientId, "", Null, 0, NoPiece)
    /\ sent' = <<>>
    /\ clients' = clients \ {clientId}
    /\ UNCHANGED <<rooms, playerToRoom, nextId>>

\* ws.on('close'): an implicit leave; the closing socket is no longer open,
\* so send() skips it, and its id is dropped from clients
Close(clientId) ==
    /\ Step
    /\ clientId \in clients
    /\ LET r == leaveRoom(clientId) IN
         /\ rooms' = r.rooms
         /\ playerToRoom' = r.playerToRoom
         /\ last' = Last("close", clientId, "", r.ret, 0, NoPiece)
         /\ sent' = IF r.ret = Null THEN <<>>
                    ELSE broadcastToRoom(r.rooms, r.ret, "room_updated", NoClient,
                                         clients \ {clientId})
    /\ clients' = clients \ {clientId}
    /\ UNCHANGED <<nextId>>

(* --------------------------- specification ----------------------------- *)

EmptyMap == [x \in {} |-> Null]

\* the state after module load: an empty registry and no connection
Init ==
    /\ rooms = EmptyMap
    /\ playerToRoom = EmptyMap
    /\ clients = {}
    /\ nextId = 1
    /\ last = Last("none", NoClient, "", Null, 0, NoPiece)
    /\ sent = <<>>
    /\ stepsLeft = MaxSteps

\* the piece ids a client's move_piece is tried with: the ids of the pieces
\* of the client's room and one id that names no piece; movePiece answers
\* every other id as it answers that one (pieces.find returns undefined)
PieceIdsFor(clientId) ==
    {id \in PieceIds :
        \/ id = <<"bogus", 0>>
        \/ /\ HasRoom(clientId)
           /\ \E i \in 1..Len(RoomOf(clientId).gameState.pieces) :
                 RoomOf(clientId).gameState.pieces[i].id = id}

\* a move_piece message of the client arrives, for one of those ids
ReceiveMovePiece(clientId) ==
    \E id \in PieceIdsFor(clientId) : HandleMovePiece(clientId, id)

Next ==
    \/ Connect
    \/ \E c \in Clients, m \in GameMode : \E n \in NamesOf(c) : HandleCreate(c, n, m)
    \/ \E c \in Clients, code \in Codes : \E n \in NamesOf(c) : HandleJoin(c, code, n)
    \/ \E c \in Clients, color \in PlayerColor : HandleChooseColor(c, color)
    \/ \E c \in Clients : HandleReady(c)
    \/ \E c \in Clients : HandleStartGame(c)
    \/ \E c \in Clients : HandleRollDice(c)
    \/ \E c \in Clients : ReceiveMovePiece(c)
    \/ \E c \in Clients : HandleLeave(c)
    \/ \E c \in Clients : Close(c)

Spec == Init /\ [][Next]_vars

(* ------------------------ games in progress ---------------------------- *)

\* Piece layouts of a two-player game in progress between red and yellow,
\* <<positions of red-0..red-3, positions of yellow-0..yellow-3>>.  Each is
\* a position play from startGame reaches: every piece is in base, on its
\* own path or finished, and no two colours share a cell that is not safe.
\*   1: both colours one piece short of finishing
\*   2: pieces in contact on the main track (red on cells 7, 10, 10;
\*      yellow on cells 8 and 16)
\*   3: red about to enter its home stretch (cells 48, 50), yellow on cell 51
MidLayouts ==
    { << <<99, 99, 99, 55>>, <<99, 99, 99, 54>> >>,
      << <<7, 10, 10, -1>>,  <<34, 42, -1, -1>> >>,
      << <<48, 50, 99, 99>>, <<25, -1, 99, 99>> >> }

MidPiece(color, i, position) ==
    LET p == [id |-> <<color, i>>, color |-> color, position |-> position,
              isSafe |-> TRUE]
    IN [p EXCEPT !.isSafe = isPieceOnSafeSpot(p)]

MidPieces(layout) ==
    [i \in 1..4 |-> MidPiece("red", i - 1, layout[1][i])]
    \o [i \in 1..4 |-> MidPiece("yellow", i - 1, layout[2][i])]

\* the pieces of the colour have a legal move for the roll: the test rollDice
\* makes before it leaves a move owed
HasValidMoves(pieces, color, roll) ==
    \E i \in 1..Len(pieces) : pieces[i].color = color /\ canMovePiece(pieces[i], roll)

\* the roll values a game in progress starts with: none yet, or a 2
MidOwedRolls == {NullDice, 2}

\* A started room "A" of clients 1 (red) and 2 (yellow), both connected.
\* Either a turn is about to begin (owed = NullDice: the previous player's
\* turn ended on a 3) or the active player has rolled and owes a move for a
\* roll that has a legal move.
InitMid ==
    /\ \E layout \in MidLayouts, turn \in {0, 1}, mode \in GameMode,
          owed \in MidOwedRolls :
         /\ owed # NullDice =>
               HasValidMoves(MidPieces(layout), <<"red", "yellow">>[turn + 1], owed)
         /\ rooms = [c \in {"A"} |->
                    [code |-> "A",
                     players |-> <<[id |-> 1, name |-> "Al", color |-> "red",
                                    ready |-> TRUE],
                                   [id |-> 2, name |-> "Bo", color |-> "yellow",
                                    ready |-> TRUE]>>,
                     gameMode |-> mode,
                     gameState |->
                        [pieces |-> MidPieces(layout), currentTurnIndex |-> turn,
                         diceValue |-> owed, lastDiceValue |-> 3,
                         isFirstRollOfTurn |-> (owed = NullDice),
                         waitingForMove |-> (owed # NullDice),
                         winner |-> Null, started |-> TRUE]]]
    /\ playerToRoom = [c \in {1, 2} |-> "A"]
    /\ clients = {1, 2}
    /\ nextId = 3
    /\ last = Last("none", NoClient, "", Null, 0, NoPiece)
    /\ sent = <<>>
    /\ stepsLeft = MaxMidSteps

SpecMid == InitMid /\ [][Next]_vars

(* --------------------------- the die alone ----------------------------- *)

\* rolls made in a behaviour that starts from InitDice
MaxDiceRolls == 1

\* piece layouts the die is rolled on: those of the games in progress and
\* the layout after startGame, every piece in base
DiceLayouts == MidLayouts \cup { << <<-1, -1, -1, -1>>, <<-1, -1, -1, -1>> >> }

\* the argument of rollWeightedDice: a started room of red and yellow with
\* no move owed, over every piece layout, either player to roll, every
\* value of lastDiceValue (null or a face) and of isFirstRollOfTurn
InitDice ==
    /\ \E layout \in DiceLayouts, turn \in {0, 1}, lastRoll \in 0..6,
          isFirstRoll \in BOOLEAN :
         rooms = [c \in {"A"} |->
                    [code |-> "A",
                     players |-> <<[id |-> 1, name |-> "Al", color |-> "red",
                                    ready |-> TRUE],
                                   [id |-> 2, name |-> "Bo", color |-> "yellow",
                                    ready |-> TRUE]>>,
                     gameMode |-> "2-player",
                     gameState |->
                        [pieces |-> MidPieces(layout), currentTurnIndex |-> turn,
                         diceValue |-> NullDice, lastDiceValue |-> lastRoll,
                         isFirstRollOfTurn |-> isFirstRoll,
                         waitingForMove |-> FALSE,
                         winner |-> Null, started |-> TRUE]]]
    /\ playerToRoom = [c \in {1, 2} |-> "A"]
    /\ clients = {1, 2}
    /\ nextId = 3
    /\ last = Last("none", NoClient, "", Null, 0, NoPiece)
    /\ sent = <<>>
    /\ stepsLeft = MaxDiceRolls

\* the die is rolled by whoever asks
NextDice == \E c \in Clients : HandleRollDice(c)

SpecDice == InitDice /\ [][NextDice]_vars

(* ------------------------ malformed messages --------------------------- *)

\* events handled in a behaviour that starts from InitWire
MaxWireSteps == 4

\* the message types whose handler reads message.payload, with the TypeError
\* that reading the first field of a payload that is not there throws
MissingPayloadError ==
    [create |-> "Cannot read properties of undefined (reading 'playerName')",
     join |-> "Cannot read properties of undefined (reading 'roomCode')",
     choose_color |-> "Cannot read properties of undefined (reading 'color')",
     move_piece |-> "Cannot read properties of undefined (reading 'pieceId')"]

\* ws.on('message') for a text JSON.parse rejects: the catch of the listener
\* answers the sender
HandleUnparseable(clientId) ==
    /\ Step
    /\ clientId \in clients
    /\ last' = Last("unparseable", clientId, "Invalid message format", Null, 0, NoPiece)
    /\ sent' = sendError(clientId, "Invalid message format")
    /\ UNCHANGED <<rooms, playerToRoom, clients, nextId>>

\* a create, join, choose_color or move_piece message without payload: the
\* read of the first field throws inside handleMessage, whose own catch
\* answers the sender with the message of the TypeError
HandleNoPayload(clientId, type) ==
    /\ Step
    /\ clientId \in clients
    /\ last' = Last("no_payload", clientId, MissingPayloadError[type], Null, 0, NoPiece)
    /\ sent' = sendError(clientId, MissingPayloadError[type])
    /\ UNCHANGED <<rooms, playerToRoom, clients, nextId>>

\* an empty registry, as in Init
InitWire ==
    /\ rooms = EmptyMap
    /\ playerToRoom = EmptyMap
    /\ clients = {}
    /\ nextId = 1
    /\ last = Last("none", NoClient, "", Null, 0, NoPiece)
    /\ sent = <<>>
    /\ stepsLeft = MaxWireSteps

\* the events of Next and the messages that are not a WSMessage: text that
\* does not parse, a missing payload, and a create or join whose payload is
\* {} (every field reads as undefined)
NextWire ==
    \/ Next
    \/ \E c \in Clients : HandleUnparseable(c)
    \/ \E c \in Clients, type \in DOMAIN MissingPayloadError : HandleNoPayload(c, type)
    \/ \E c \in Clients : HandleCreate(c, Undefined, Undefined)
    \/ \E c \in Clients : HandleJoin(c, Undefined, Undefined)

SpecWire == InitWire /\ [][NextWire]_vars

(* ---------------------------- several rooms ---------------------------- *)

\* events handled in a behaviour that starts from InitRooms
MaxRoomSteps == 6

\* two room codes, so that two rooms exist side by side
RoomCodes == {"A", "B"}

\* an empty registry, as in Init
InitRooms ==
    /\ rooms = EmptyMap
    /\ playerToRoom = EmptyMap
    /\ clients = {}
    /\ nextId = 1
    /\ last = Last("none", NoClient, "", Null, 0, NoPiece)
    /\ sent = <<>>
    /\ stepsLeft = MaxRoomSteps

\* the events of Next, with create and join over the two codes
NextRooms ==
    \/ Connect
    \/ \E c \in Clients, m \in GameMode : \E n \in NamesOf(c) :
          HandleCreateFrom(RoomCodes, c, n, m)
    \/ \E c \in Clients, code \in RoomCodes : \E n \in NamesOf(c) : HandleJoin(c, code, n)
    \/ \E c \in Clients, color \in PlayerColor : HandleChooseColor(c, color)
    \/ \E c \in Clients : HandleReady(c)
    \/ \E c \in Clients : HandleStartGame(c)
    \/ \E c \in Clients : HandleRollDice(c)
    \/ \E c \in Clients : ReceiveMovePiece(c)
    \/ \E c \in Clients : HandleLeave(c)
    \/ \E c \in Clients : Close(c)

SpecRooms == InitRooms /\ [][NextRooms]_vars

(* ------------------------------ claims --------------------------------- *)

\* the event a step handles is described by last' (every action sets it)
Handled(ops, clientId) == last'.op \in ops /\ last'.client = clientId

Accepted(op) == last.op = op /\ last.err = "" /\ last.ret # Null

InStartedRoom(clientId) ==
    HasRoom(clientId) /\ RoomOf(clientId).gameState.started

\* the participant at currentTurnIndex of the room, NoClient if the index
\* names no element of the player list
ActivePlayer(room) ==
    IF room.gameState.currentTurnIndex + 1 \in 1..Len(room.players)
    THEN room.players[room.gameState.currentTurnIndex + 1].id
    ELSE NoClient

\* C1: in a started room, a roll_dice or move_piece from a member other than
\* the player at currentTurnIndex is rejected with "Not your turn" and the
\* registry is left as it was.
C1_OnlyActivePlayerActs ==
    [][\A c \in Clients :
          (/\ InStartedRoom(c)
           /\ ActivePlayer(RoomOf(c)) # c
           /\ Handled({"roll_dice", "move_piece"}, c))
          => (last'.err = "Not your turn" /\ rooms' = rooms)]_vars

\* C2: every room that exists has 0 <= currentTurnIndex < number of players.
C2_TurnIndexInRange ==
    \A code \in DOMAIN rooms :
        /\ 0 <= rooms[code].gameState.currentTurnIndex
        /\ rooms[code].gameState.currentTurnIndex < Len(rooms[code].players)

\* C3: once a room has a winner, a roll_dice or move_piece from any
\* participant of the room leaves its game state unchanged.
C3_NoPlayAfterWinner ==
    [][\A c \in Clients :
          (/\ InStartedRoom(c)
           /\ RoomOf(c).gameState.winner # Null
           /\ Handled({"roll_dice", "move_piece"}, c))
          => rooms' = rooms]_vars

\* C4: once a room's winner is set, its currentTurnIndex never changes again.
C4_TurnFrozenAfterWinner ==
    [][\A code \in DOMAIN rooms :
          (rooms[code].gameState.winner # Null /\ code \in DOMAIN rooms')
          => rooms'[code].gameState.currentTurnIndex
             = rooms[code].gameState.currentTurnIndex]_vars

\* colours with a main-track piece on the absolute cell
ColoursOnCell(pieces, cell) ==
    {pieces[i].color : i \in {j \in 1..Len(pieces) :
                                getAbsoluteTrackPosition(pieces[j]) = cell}}

\* C5: after an accepted move_piece no track cell outside the safe set holds
\* main-track pieces of two different colours.
C5_OneColourPerUnsafeCell ==
    Accepted("move_piece") =>
        \A cell \in (0..51) \ SAFE_SPOT_POSITIONS :
            Cardinality(ColoursOnCell(rooms[last.ret].gameState.pieces, cell)) <= 1

\* C6: in a started room every colour claimed by a player has exactly four
\* pieces in the room's piece list.
C6_FourPiecesPerClaimedColour ==
    \A code \in DOMAIN rooms :
        rooms[code].gameState.started =>
            \A i \in 1..Len(rooms[code].players) :
                rooms[code].players[i].color # Null =>
                    Len(PiecesOfColor(rooms[code].gameState.pieces,
                                      rooms[code].players[i].color)) = 4

PieceIdsOf(room) == {room.gameState.pieces[i].id : i \in 1..Len(room.gameState.pieces)}

\* C7: once a room is started no start_game is accepted for it and the
\* identities of its pieces never change.
C7_StartOnlyOnce ==
    [][\A code \in DOMAIN rooms :
          rooms[code].gameState.started =>
             /\ \A c \in Clients :
                   (HasRoom(c) /\ playerToRoom[c] = code /\ Handled({"start_game"}, c))
                   => last'.ret = Null
             /\ code \in DOMAIN rooms' =>
                   PieceIdsOf(rooms'[code]) = PieceIdsOf(rooms[code])]_vars

PositionDomain == {-1} \cup (0..56) \cup {99}

AllPieces == UNION {SeqToSet(rooms[code].gameState.pieces) : code \in DOMAIN rooms}

\* in this step the piece at index i of the room turns from unfinished to
\* finished
Finishes(code, i) ==
    /\ i <= Len(rooms'[code].gameState.pieces)
    /\ rooms'[code].gameState.pieces[i].id = rooms[code].gameState.pieces[i].id
    /\ rooms[code].gameState.pieces[i].position # 99
    /\ rooms'[code].gameState.pieces[i].position = 99

\* C8: every piece position is -1, 0..56 or 99, and a piece becomes 99 only
\* in an accepted move whose pre-move position plus the owed roll is 57.
C8_PositionDomain ==
    [][/\ \A p \in AllPieces : p.position \in PositionDomain
       /\ \A p \in AllPieces' : p.position \in PositionDomain
       /\ \A code \in (DOMAIN rooms) \cap (DOMAIN rooms') :
            rooms'[code].gameState.pieces # rooms[code].gameState.pieces =>
               \A i \in 1..Len(rooms[code].gameState.pieces) :
                  Finishes(code, i) =>
                     /\ last'.op = "move_piece" /\ last'.err = "" /\ last'.ret = code
                     /\ rooms[code].gameState.pieces[i].position
                        + rooms[code].gameState.diceValue = 57]_vars

\* a move has just put the last piece of the mover's colour on 99
C8_Witness ==
    /\ Accepted("move_piece")
    /\ \E i \in 1..Len(rooms[last.ret].players) :
          /\ rooms[last.ret].players[i].id = last.client
          /\ rooms[last.ret].gameState.winner = rooms[last.ret].players[i].color

\* C9: a move is owed only while a roll value 1..6 is recorded.
C9_MoveOwedHasRoll ==
    \A code \in DOMAIN rooms :
        rooms[code].gameState.waitingForMove =>
            rooms[code].gameState.diceValue \in 1..6

\* a roll has just been accepted and left a move owed
C9_Witness ==
    /\ Accepted("roll_dice")
    /\ rooms[last.ret].gameState.waitingForMove
    /\ rooms[last.ret].gameState.diceValue = last.roll

\* the step is an accepted move_piece of clientId in room code
MoveAccepted(clientId, code) ==
    /\ Handled({"move_piece"}, clientId)
    /\ last'.err = "" /\ last'.ret = code
    /\ code \in DOMAIN rooms /\ code \in DOMAIN rooms'

\* after the step every piece of the active player's colour is finished:
\* the move produced a winner
ProducesWinner(code) ==
    LET color == rooms[code].players[rooms[code].gameState.currentTurnIndex + 1].color
        mine == PiecesOfColor(rooms'[code].gameState.pieces, color)
    IN \A i \in 1..Len(mine) : mine[i].position = 99

\* C10: after an accepted move_piece that does not produce a winner the mover
\* keeps the turn on a 6 or a capture; otherwise the turn passes to
\* (index + 1) mod player count, the roll becomes the previous-player roll
\* and the first-roll flag is set.  Always the roll is cleared and no move
\* is owed.
C10_TurnAfterMove ==
    [][\A c \in Clients, code \in Codes :
          (MoveAccepted(c, code) /\ ~ProducesWinner(code)) =>
             LET gs == rooms[code].gameState
                 gs2 == rooms'[code].gameState
             IN
             /\ gs2.diceValue = NullDice
             /\ ~gs2.waitingForMove
             /\ IF gs.diceValue = 6 \/ last'.captured # NoPiece
                THEN gs2.currentTurnIndex = gs.currentTurnIndex
                ELSE /\ gs2.currentTurnIndex
                        = (gs.currentTurnIndex + 1) % Len(rooms[code].players)
                     /\ gs2.lastDiceValue = gs.diceValue
                     /\ gs2.isFirstRollOfTurn]_vars

\* the step is an accepted roll_dice of clientId in room code
RollAccepted(clientId, code) ==
    /\ Handled({"roll_dice"}, clientId)
    /\ last'.err = "" /\ last'.ret = code
    /\ code \in DOMAIN rooms /\ code \in DOMAIN rooms'

\* the colour of the player at currentTurnIndex
ActiveColour(room) == room.players[room.gameState.currentTurnIndex + 1].color

\* C11: after an accepted roll_dice for which no piece of the active colour
\* can move, no move is owed and the roll value is cleared; the turn passes
\* to (index + 1) mod player count exactly when the roll is not a 6, and then
\* the roll becomes the previous-player roll and the first-roll flag is set.
C11_RollWithoutMove ==
    [][\A c \in Clients, code \in Codes :
          (/\ RollAccepted(c, code)
           /\ ~HasValidMoves(rooms[code].gameState.pieces,
                             ActiveColour(rooms[code]), last'.roll))
          => LET gs == rooms[code].gameState
                 gs2 == rooms'[code].gameState
             IN
             /\ ~gs2.waitingForMove
             /\ gs2.diceValue = NullDice
             /\ gs2.pieces = gs.pieces
             /\ IF last'.roll = 6
                THEN gs2.currentTurnIndex = gs.currentTurnIndex
                ELSE /\ gs2.currentTurnIndex
                        = (gs.currentTurnIndex + 1) % Len(rooms[code].players)
                     /\ gs2.lastDiceValue = last'.roll
                     /\ gs2.isFirstRollOfTurn]_vars

\* a 6 has just been rolled for a colour that has pieces out of base and no
\* legal move: the roller keeps the turn
C11_Witness ==
    /\ Accepted("roll_dice")
    /\ last.roll = 6
    /\ ~rooms[last.ret].gameState.waitingForMove
    /\ ActivePlayer(rooms[last.ret]) = last.client
    /\ \E i \in 1..Len(rooms[last.ret].gameState.pieces) :
          /\ rooms[last.ret].gameState.pieces[i].color = ActiveColour(rooms[last.ret])
          /\ rooms[last.ret].gameState.pieces[i].position \in 52..56


\* a move is owed in the room: a roll is recorded and waits for its move
MoveOwed(room) ==
    room.gameState.waitingForMove /\ room.gameState.diceValue \in 1..6

\* C12: an accepted roll_dice that has a legal move leaves the room owing a
\* move, with diceValue = the roll (1..6), the first-roll flag false and
\* currentTurnIndex unchanged; the room keeps owing that move until a
\* move_piece is accepted, and while it does every roll_dice of the active
\* player is rejected with "Already rolled, make your move" and changes
\* nothing.
C12_MoveOwedAfterRoll ==
    [][\A code \in Codes :
          (code \in DOMAIN rooms /\ code \in DOMAIN rooms') =>
             LET gs == rooms[code].gameState
                 gs2 == rooms'[code].gameState
             IN
             /\ \A c \in Clients :
                   (/\ RollAccepted(c, code)
                    /\ HasValidMoves(gs.pieces, ActiveColour(rooms[code]), last'.roll))
                   => /\ MoveOwed(rooms'[code])
                      /\ last'.roll \in 1..6
                      /\ gs2.diceValue = last'.roll
                      /\ ~gs2.isFirstRollOfTurn
                      /\ gs2.currentTurnIndex = gs.currentTurnIndex
             /\ (MoveOwed(rooms[code]) /\ ~\E c \in Clients : MoveAccepted(c, code))
                   => (MoveOwed(rooms'[code]) /\ gs2.diceValue = gs.diceValue)
             /\ \A c \in Clients :
                   (/\ MoveOwed(rooms[code])
                    /\ gs.started
                    /\ HasRoom(c) /\ playerToRoom[c] = code
                    /\ ActivePlayer(rooms[code]) = c
                    /\ Handled({"roll_dice"}, c))
                   => (last'.err = "Already rolled, make your move"
                       /\ rooms' = rooms)]_vars

\* index of the piece of the mover's colour that an accepted move has moved
MovedIndex(code) ==
    CHOOSE k \in 1..Len(rooms[code].gameState.pieces) :
        /\ rooms[code].gameState.pieces[k].color = ActiveColour(rooms[code])
        /\ rooms'[code].gameState.pieces[k].position
           # rooms[code].gameState.pieces[k].position

\* the absolute cell the moved piece has landed on, -1 off the main track
LandingCell(code) ==
    getAbsoluteTrackPosition(rooms'[code].gameState.pieces[MovedIndex(code)])

\* indices of the pieces of another colour that stand on the absolute cell
\* before the move
OpposingOn(code, cell) ==
    {j \in 1..Len(rooms[code].gameState.pieces) :
        /\ rooms[code].gameState.pieces[j].color # ActiveColour(rooms[code])
        /\ getAbsoluteTrackPosition(rooms[code].gameState.pieces[j]) = cell}

\* C13: when an accepted move lands on a main-track cell that is not safe
\* and holds a piece of another colour, one such piece (the first in the
\* piece list) goes to base with its safe flag set, it is the piece reported
\* as captured, and the mover keeps the turn whatever the roll.
C13_CaptureOnUnsafeCell ==
    [][\A c \in Clients, code \in Codes :
          (/\ MoveAccepted(c, code)
           /\ LandingCell(code) \in (0..51) \ SAFE_SPOT_POSITIONS
           /\ OpposingOn(code, LandingCell(code)) # {})
          => LET hit == OpposingOn(code, LandingCell(code))
                 j == CHOOSE h \in hit : \A g \in hit : h <= g
                 gs == rooms[code].gameState
                 gs2 == rooms'[code].gameState
             IN
             /\ gs2.pieces[j].id = gs.pieces[j].id
             /\ gs2.pieces[j].position = -1
             /\ gs2.pieces[j].isSafe
             /\ last'.captured = gs.pieces[j]
             /\ gs2.currentTurnIndex = gs.currentTurnIndex
             /\ ActivePlayer(rooms'[code]) = c]_vars

\* a move has just captured a piece that stood on the main track: the piece
\* is in base and the mover is still the active player
C13_Witness ==
    /\ Accepted("move_piece")
    /\ last.captured # NoPiece
    /\ ActivePlayer(rooms[last.ret]) = last.client
    /\ \E j \in 1..Len(rooms[last.ret].gameState.pieces) :
          /\ rooms[last.ret].gameState.pieces[j].id = last.captured.id
          /\ rooms[last.ret].gameState.pieces[j].position = -1
          /\ rooms[last.ret].gameState.pieces[j].isSafe
          /\ last.captured.position \in 0..50

\* indices of the pieces, other than the moved one, whose position the step
\* changes
OthersMoved(code) ==
    {j \in 1..Len(rooms[code].gameState.pieces) :
        /\ j # MovedIndex(code)
        /\ rooms'[code].gameState.pieces[j].position
           # rooms[code].gameState.pieces[j].position}

\* C14: an accepted move changes the position of at most one piece besides
\* the moved one, and of none unless the moved piece lands on a relative
\* position 0..50 whose absolute cell (position + colour offset) mod 52 is
\* outside {0,8,13,21,26,34,39,47}; a landing on a safe cell or on the home
\* stretch moves no other piece.
C14_CaptureOnlyOnUnsafeTrack ==
    [][\A c \in Clients, code \in Codes :
          MoveAccepted(c, code) =>
             LET moved == rooms'[code].gameState.pieces[MovedIndex(code)] IN
             /\ Len(rooms'[code].gameState.pieces) = Len(rooms[code].gameState.pieces)
             /\ Cardinality(OthersMoved(code)) <= 1
             /\ OthersMoved(code) # {} =>
                   /\ moved.position \in 0..50
                   /\ (moved.position + PLAYER_START_OFFSETS[moved.color]) % 52
                      \notin {0, 8, 13, 21, 26, 34, 39, 47}
             /\ (last'.captured = NoPiece) <=> (OthersMoved(code) = {})]_vars

\* a move has just landed on a safe cell where a piece of another colour
\* sits, and captured nothing
C14_Witness ==
    /\ Accepted("move_piece")
    /\ last.captured = NoPiece
    /\ \E i, j \in 1..Len(rooms[last.ret].gameState.pieces) :
          LET p == rooms[last.ret].gameState.pieces[i]
              q == rooms[last.ret].gameState.pieces[j]
          IN
          /\ ActivePlayer(rooms[last.ret]) # last.client
          /\ p.color # q.color
          /\ p.position \in 0..50 /\ q.position \in 0..50
          /\ getAbsoluteTrackPosition(p) = getAbsoluteTrackPosition(q)
          /\ getAbsoluteTrackPosition(p) \in SAFE_SPOT_POSITIONS

\* C15: a move_piece of the active player for one of their own pieces, at
\* position p with owed roll r in 1..6, is accepted if and only if
\* (p = -1 and r = 6) or (p >= 0 and p + r <= 57); accepted, it puts a base
\* piece on 0 and any other piece on p + r, 57 becoming 99; rejected, it is
\* an "Invalid move" that changes nothing.
C15_MoveLegality ==
    [][\A c \in Clients :
          (/\ Handled({"move_piece"}, c)
           /\ InStartedRoom(c)
           /\ ActivePlayer(RoomOf(c)) = c
           /\ MoveOwed(RoomOf(c)))
          => LET code == playerToRoom[c]
                 pieces == rooms[code].gameState.pieces
                 r == rooms[code].gameState.diceValue
             IN
             \A k \in 1..Len(pieces) :
                (/\ pieces[k].color = ActiveColour(rooms[code])
                 /\ FindPiece(pieces, pieces[k].id) = k
                 /\ HandleMovePiece(c, pieces[k].id))
                => LET p == pieces[k].position
                       legal == (p = -1 /\ r = 6) \/ (p >= 0 /\ p + r <= 57)
                   IN
                   /\ legal <=> (last'.err = "" /\ last'.ret = code)
                   /\ legal =>
                         /\ rooms'[code].gameState.pieces[k].id = pieces[k].id
                         /\ rooms'[code].gameState.pieces[k].position
                            = IF p = -1 THEN 0 ELSE IF p + r = 57 THEN 99 ELSE p + r
                   /\ ~legal => (last'.err = "Invalid move" /\ rooms' = rooms)]_vars

\* a move has just brought a piece of the mover's colour out of base onto
\* position 0
C15_Witness ==
    /\ Accepted("move_piece")
    /\ ActivePlayer(rooms[last.ret]) = last.client
    /\ \E i \in 1..Len(rooms[last.ret].gameState.pieces) :
          /\ rooms[last.ret].gameState.pieces[i].color = ActiveColour(rooms[last.ret])
          /\ rooms[last.ret].gameState.pieces[i].position = 0

\* the colour of the player with this id in the room, Null if none
ColourOf(room, clientId) ==
    IF FindPlayer(room.players, clientId) > 0
    THEN room.players[FindPlayer(room.players, clientId)].color
    ELSE Null

AllFinished(room, color) ==
    LET mine == PiecesOfColor(room.gameState.pieces, color) IN
    /\ Len(mine) = 4
    /\ \A i \in 1..4 : mine[i].position = 99

\* C16: in a started room a winner c has all four pieces of colour c on 99,
\* and a room in which an accepted move has just left all four pieces of the
\* mover's colour on 99 has that colour as its winner.
C16_WinnerIffAllFinished ==
    \A code \in DOMAIN rooms :
        rooms[code].gameState.started =>
            /\ rooms[code].gameState.winner # Null =>
                  AllFinished(rooms[code], rooms[code].gameState.winner)
            /\ (/\ Accepted("move_piece") /\ last.ret = code
                /\ AllFinished(rooms[code], ColourOf(rooms[code], last.client)))
               => rooms[code].gameState.winner = ColourOf(rooms[code], last.client)

\* a move has just finished the fourth piece of the mover's colour and the
\* room records that colour as the winner
C16_Witness ==
    /\ Accepted("move_piece")
    /\ rooms[last.ret].gameState.started
    /\ AllFinished(rooms[last.ret], ColourOf(rooms[last.ret], last.client))
    /\ rooms[last.ret].gameState.winner = ColourOf(rooms[last.ret], last.client)

\* C17: a join fails with "Room not found" for an unknown code, "Room is
\* full" for a room at its capacity and "Game already started" for a started
\* room, and then no player list and no participant-to-room mapping changes;
\* a join that succeeds appends exactly one unready, uncoloured player for
\* the participant to the end of the room's list and maps the participant to
\* the room.
C17_JoinOutcomes ==
    [][\A c \in Clients, code \in Codes : \A n \in NamesOf(c) :
          (Handled({"join"}, c) /\ HandleJoin(c, code, n)) =>
             IF code \notin DOMAIN rooms
             THEN /\ sent' = <<Msg(c, "error", "Room not found")>>
                  /\ rooms' = rooms /\ playerToRoom' = playerToRoom
             ELSE IF Len(rooms[code].players) >= maxPlayers(rooms[code])
             THEN /\ sent' = <<Msg(c, "error", "Room is full")>>
                  /\ rooms' = rooms /\ playerToRoom' = playerToRoom
             ELSE IF rooms[code].gameState.started
             THEN /\ sent' = <<Msg(c, "error", "Game already started")>>
                  /\ rooms' = rooms /\ playerToRoom' = playerToRoom
             ELSE /\ last'.err = "" /\ last'.ret = code
                  /\ rooms' = [rooms EXCEPT ![code].players =
                                 Append(rooms[code].players,
                                        [id |-> c, name |-> n, color |-> Null,
                                         ready |-> FALSE])]
                  /\ DOMAIN playerToRoom' = (DOMAIN playerToRoom) \cup {c}
                  /\ playerToRoom'[c] = code
                  /\ \A d \in (DOMAIN playerToRoom) \ {c} :
                        playerToRoom'[d] = playerToRoom[d]]_vars

\* a join has just succeeded: the joiner is the last player of the room,
\* unready and without a colour, and is mapped to the room
C17_Witness ==
    /\ Accepted("join")
    /\ last.ret \in DOMAIN rooms
    /\ Len(rooms[last.ret].players) >= 2
    /\ \E n \in NamesOf(last.client) :
          rooms[last.ret].players[Len(rooms[last.ret].players)]
          = [id |-> last.client, name |-> n, color |-> Null, ready |-> FALSE]
    /\ last.client \in DOMAIN playerToRoom
    /\ playerToRoom[last.client] = last.ret

\* C18: every room holds at most as many players as its mode allows: 2 in
\* two-player mode, 4 in four-player mode.
C18_PlayersWithinCapacity ==
    \A code \in DOMAIN rooms :
        Len(rooms[code].players)
            <= (IF rooms[code].gameMode = "2-player" THEN 2 ELSE 4)

\* a join has just been turned away from a four-player room that holds four
\* players
C18_Witness ==
    /\ last.op = "join"
    /\ last.err = "Room is full"
    /\ \E code \in DOMAIN rooms :
          /\ rooms[code].gameMode = "4-player"
          /\ Len(rooms[code].players) = 4

\* no two entries of the player list hold the same colour, and a two-player
\* room holds only red and yellow
ColoursDistinct(room) ==
    /\ \A i, j \in 1..Len(room.players) :
          (i # j /\ room.players[i].color # Null)
          => room.players[i].color # room.players[j].color
    /\ room.gameMode = "2-player" =>
          \A i \in 1..Len(room.players) :
             room.players[i].color \in {Null, "red", "yellow"}

\* C19: no two players of a room hold the same colour and a two-player room
\* holds only red and yellow; a choose_color for a colour outside the mode's
\* set fails with "Color not available for this game mode", one for a colour
\* another player of the room holds fails with "Color already taken", both
\* leaving every colour as it was; any other choose_color is accepted and
\* changes the chooser's own colour only.
C19_ColoursUnique ==
    [][/\ \A code \in DOMAIN rooms : ColoursDistinct(rooms[code])
       /\ \A code \in DOMAIN rooms' : ColoursDistinct(rooms'[code])
       /\ \A c \in Clients, color \in PlayerColor :
             (/\ Handled({"choose_color"}, c)
              /\ HasRoom(c)
              /\ HandleChooseColor(c, color))
             => LET code == playerToRoom[c]
                    players == rooms[code].players
                    valid == IF rooms[code].gameMode = "2-player"
                             THEN {"red", "yellow"}
                             ELSE {"red", "green", "yellow", "blue"}
                IN
                IF color \notin valid
                THEN /\ last'.err = "Color not available for this game mode"
                     /\ rooms' = rooms
                ELSE IF \E i \in 1..Len(players) :
                           players[i].id # c /\ players[i].color = color
                THEN /\ last'.err = "Color already taken"
                     /\ rooms' = rooms
                ELSE /\ last'.err = "" /\ last'.ret = code
                     /\ ColourOf(rooms'[code], c) = color
                     /\ Len(rooms'[code].players) = Len(players)
                     /\ \A i \in 1..Len(players) :
                           players[i].id # c => rooms'[code].players[i] = players[i]
                     /\ rooms' = [rooms EXCEPT ![code].players = rooms'[code].players]]_vars

\* a player who holds a colour has just been refused the colour that another
\* player of the room holds
C19_Witness ==
    /\ last.op = "choose_color"
    /\ last.err = "Color already taken"
    /\ HasRoom(last.client)
    /\ ColourOf(RoomOf(last.client), last.client) # Null
    /\ \E i \in 1..Len(RoomOf(last.client).players) :
          /\ RoomOf(last.client).players[i].id # last.client
          /\ RoomOf(last.client).players[i].color
             \notin {Null, ColourOf(RoomOf(last.client), last.client)}

\* the colours the players of the room hold
ClaimedColours(room) ==
    {room.players[i].color : i \in 1..Len(room.players)} \ {Null}

\* C20: a start_game from a member of a room succeeds exactly when the room
\* has between 2 and its capacity of players and each of them has a colour
\* and is ready; otherwise it fails with "Not all players are ready" and
\* changes nothing.  After a success the room holds exactly four pieces for
\* each claimed colour and no others, all on -1 and safe, currentTurnIndex
\* is 0, there is no roll value, no move owed and no winner, and the game is
\* started; the player list is as before.
C20_StartGame ==
    [][\A c \in Clients :
          (Handled({"start_game"}, c) /\ HasRoom(c)) =>
             LET code == playerToRoom[c]
                 room == rooms[code]
                 capacity == IF room.gameMode = "2-player" THEN 2 ELSE 4
                 canStart ==
                    /\ 2 <= Len(room.players) /\ Len(room.players) <= capacity
                    /\ \A i \in 1..Len(room.players) :
                          room.players[i].color # Null /\ room.players[i].ready
             IN
             IF canStart
             THEN /\ last'.err = "" /\ last'.ret = code
                  /\ code \in DOMAIN rooms'
                  /\ rooms'[code].players = room.players
                  /\ rooms'[code].gameMode = room.gameMode
                  /\ LET gs2 == rooms'[code].gameState IN
                     /\ Len(gs2.pieces) = 4 * Cardinality(ClaimedColours(room))
                     /\ \A col \in ClaimedColours(room) :
                           Len(PiecesOfColor(gs2.pieces, col)) = 4
                     /\ \A i \in 1..Len(gs2.pieces) :
                           gs2.pieces[i].position = -1 /\ gs2.pieces[i].isSafe
                     /\ \A i, j \in 1..Len(gs2.pieces) :
                           i # j => gs2.pieces[i].id # gs2.pieces[j].id
                     /\ gs2.currentTurnIndex = 0
                     /\ gs2.diceValue = NullDice
                     /\ ~gs2.waitingForMove
                     /\ gs2.winner = Null
                     /\ gs2.started
             ELSE /\ last'.err = "Not all players are ready"
                  /\ rooms' = rooms]_vars

\* a two-player room of red and yellow has just been started: 8 pieces, all
\* in base, the first player to roll
C20_Witness ==
    /\ Accepted("start_game")
    /\ rooms[last.ret].gameMode = "2-player"
    /\ ClaimedColours(rooms[last.ret]) = {"red", "yellow"}
    /\ Len(rooms[last.ret].gameState.pieces) = 8
    /\ \A i \in 1..8 : rooms[last.ret].gameState.pieces[i].position = -1
    /\ rooms[last.ret].gameState.currentTurnIndex = 0
    /\ rooms[last.ret].gameState.started
    /\ rooms[last.ret].gameState.lastDiceValue = NullDice

\* the ids of the player list, in list order
IdsOf(players) == [i \in 1..Len(players) |-> players[i].id]

\* C21: a leave or disconnect of a participant mapped to a room takes every
\* entry of the participant out of that room's player list, leaving the
\* other entries as they were and in their order, drops the participant's
\* mapping, and removes the room if its list became empty; no room of the
\* registry has zero players.  A leave of a participant without a room
\* changes nothing.
C21_LeaveRemovesPlayer ==
    [][/\ \A code \in DOMAIN rooms : Len(rooms[code].players) > 0
       /\ \A code \in DOMAIN rooms' : Len(rooms'[code].players) > 0
       /\ \A c \in Clients :
             Handled({"leave", "close"}, c) =>
                IF c \in DOMAIN playerToRoom
                THEN LET code == playerToRoom[c]
                         Stays(p) == p.id # c
                         remaining == SelectSeq(rooms[code].players, Stays)
                     IN
                     /\ last'.ret = code
                     /\ c \notin DOMAIN playerToRoom'
                     /\ \A d \in (DOMAIN playerToRoom) \ {c} :
                           d \in DOMAIN playerToRoom'
                           /\ playerToRoom'[d] = playerToRoom[d]
                     /\ IF remaining = <<>>
                        THEN code \notin DOMAIN rooms'
                        ELSE /\ code \in DOMAIN rooms'
                             /\ c \notin SeqToSet(IdsOf(rooms'[code].players))
                             /\ rooms'[code].players = remaining
                             /\ rooms'[code].gameMode = rooms[code].gameMode
                             /\ rooms'[code].gameState.pieces
                                = rooms[code].gameState.pieces
                     /\ \A other \in (DOMAIN rooms) \ {code} :
                           other \in DOMAIN rooms' /\ rooms'[other] = rooms[other]
                ELSE /\ last'.ret = Null
                     /\ rooms' = rooms
                     /\ playerToRoom' = playerToRoom]_vars

\* the last player of a room has just left: room and mapping are gone
C21_Witness ==
    /\ last.op \in {"leave", "close"}
    /\ last.ret # Null
    /\ last.ret \notin DOMAIN rooms
    /\ last.client \notin DOMAIN playerToRoom

\* the step handles a message of clientId that the manager refuses: a throw,
\* or the null of joinRoom for an unknown code
Failed(clientId) ==
    /\ last'.client = clientId
    /\ last'.op \in {"join", "choose_color", "ready", "start_game", "roll_dice",
                     "move_piece"}
    /\ last'.err # "" \/ (last'.op = "join" /\ last'.ret = Null)

\* C22: when an operation fails the router sends exactly one message, an
\* error carrying the failure, to the originating connection and nothing to
\* anyone else, and every room and every mapping is as before the message.
C22_FailureIsLocal ==
    [][\A c \in Clients :
          Failed(c) =>
             /\ Len(sent') = 1
             /\ sent'[1].to = c
             /\ sent'[1].type = "error"
             /\ sent'[1].message = (IF last'.err # "" THEN last'.err
                                    ELSE "Room not found")
             /\ rooms' = rooms
             /\ playerToRoom' = playerToRoom]_vars

\* a member of a started room whose other member is connected has just been
\* refused with "Not your turn": one error, to the sender
C22_Witness ==
    /\ last.op \in {"roll_dice", "move_piece"}
    /\ last.err = "Not your turn"
    /\ sent = <<Msg(last.client, "error", "Not your turn")>>
    /\ HasRoom(last.client)
    /\ \E i \in 1..Len(RoomOf(last.client).players) :
          /\ RoomOf(last.client).players[i].id # last.client
          /\ RoomOf(last.client).players[i].id \in clients

\* the participants mapped to the room after the step
MembersAfter(code) == {d \in DOMAIN playerToRoom' : playerToRoom'[d] = code}

\* the snapshot message of the room's state after the step
Snapshot(to, type, code) ==
    [to |-> to, type |-> type, message |-> "", room |-> rooms'[code],
     capturedPiece |-> NoPiece]

\* C23: after an accepted choose_color, ready, start_game, roll_dice or
\* move_piece every member of the room, the actor included, is sent a
\* snapshot of the room as the operation left it (game_started for
\* start_game, room_updated otherwise); an accepted join sends room_joined
\* to the joiner alone and room_updated to every other member and not to
\* the joiner; an accepted create sends room_created to the creator and
\* nothing else.
C23_SnapshotToMembers ==
    [][\A c \in Clients :
          (last'.client = c /\ last'.err = "" /\ last'.ret # Null) =>
             LET code == last'.ret
                 type == IF last'.op = "start_game" THEN "game_started"
                         ELSE "room_updated"
             IN
             /\ last'.op \in {"choose_color", "ready", "start_game", "roll_dice",
                              "move_piece"}
                => /\ c \in MembersAfter(code)
                   /\ \A d \in MembersAfter(code) :
                         Snapshot(d, type, code) \in SeqToSet(sent')
             /\ last'.op = "join"
                => /\ sent'[1] = Snapshot(c, "room_joined", code)
                   /\ \A i \in 2..Len(sent') :
                         sent'[i].type = "room_updated" /\ sent'[i].to # c
                   /\ \A d \in MembersAfter(code) \ {c} :
                         Snapshot(d, "room_updated", code) \in SeqToSet(sent')
             /\ last'.op = "create"
                => sent' = <<Snapshot(c, "room_created", code)>>]_vars

\* a roll has just been accepted in a room of two connected members and
\* each of them, the roller included, has been sent the room as it is now
C23_Witness ==
    /\ Accepted("roll_dice")
    /\ Cardinality({d \in DOMAIN playerToRoom : playerToRoom[d] = last.ret}) = 2
    /\ \A d \in {e \in DOMAIN playerToRoom : playerToRoom[e] = last.ret} :
          \E i \in 1..Len(sent) :
             /\ sent[i].to = d
             /\ sent[i].type = "room_updated"
             /\ sent[i].room = rooms[last.ret]

\* C24: a disconnect changes the registry exactly as a leave of the same
\* participant would (entries removed from the room's list, mapping removed,
\* emptied room destroyed), and every remaining member of the room is then
\* sent a room_updated with the updated room; the closed connection is sent
\* nothing.
C24_DisconnectIsLeave ==
    [][\A c \in Clients :
          Handled({"close"}, c) =>
             /\ rooms' = leaveRoom(c).rooms
             /\ playerToRoom' = leaveRoom(c).playerToRoom
             /\ c \notin DOMAIN playerToRoom'
             /\ \A i \in 1..Len(sent') : sent'[i].to # c
             /\ c \in DOMAIN playerToRoom =>
                   LET code == playerToRoom[c]
                       Stays(p) == p.id # c
                       remaining == SelectSeq(rooms[code].players, Stays)
                   IN
                   IF remaining = <<>>
                   THEN code \notin DOMAIN rooms' /\ sent' = <<>>
                   ELSE /\ rooms'[code].players = remaining
                        /\ MembersAfter(code) # {}
                        /\ \A d \in MembersAfter(code) :
                              Snapshot(d, "room_updated", code) \in SeqToSet(sent')]_vars

\* a connection of a room member has just closed and the member that
\* remains has been sent the updated room
C24_Witness ==
    /\ last.op = "close"
    /\ last.ret \in DOMAIN rooms
    /\ last.client \notin clients
    /\ last.client \notin SeqToSet(IdsOf(rooms[last.ret].players))
    /\ \E i \in 1..Len(sent) :
          /\ sent[i].type = "room_updated"
          /\ sent[i].to \in SeqToSet(IdsOf(rooms[last.ret].players))
          /\ sent[i].room = rooms[last.ret]

\* the rooms whose player at currentTurnIndex can ask for a roll
RoomsToRoll ==
    {code \in DOMAIN rooms :
        /\ rooms[code].gameState.started
        /\ rooms[code].gameState.currentTurnIndex + 1 \in 1..Len(rooms[code].players)}

\* C27: whatever the base occupancy, the previous player's final roll (none
\* or 1..6) and the first-roll flag, the weights the die samples from are
\* not negative and sum to 100, and the face it returns is one of 1..6.
C27_WeightsSumTo100 ==
    /\ \A code \in RoomsToRoll :
          LET nw == weightsOf(rooms[code]) IN
          /\ \A f \in 1..6 : nw[f].den > 0 /\ nw[f].num >= 0
          /\ \A f \in 1..6 : nw[f].den = nw[1].den
          /\ nw[1].num + nw[2].num + nw[3].num + nw[4].num + nw[5].num + nw[6].num
             = 100 * nw[1].den
          /\ rollWeightedDice(rooms[code]) # {}
          /\ rollWeightedDice(rooms[code]) \subseteq 1..6
    /\ Accepted("roll_dice") => last.roll \in 1..6

\* the die has just been rolled in a room whose previous final roll is
\* recorded as 6, the case in which the raw weights sum to 97.125
C27_Witness ==
    /\ Accepted("roll_dice")
    /\ last.roll \in 1..6
    /\ rooms[last.ret].gameState.lastDiceValue = 6
    /\ rooms[last.ret].gameState.waitingForMove
    /\ last.ret \in RoomsToRoll
    /\ totalWeight(rollWeights(FALSE, 6, TRUE)) # 100 * Milli

\* the room is in the repeat-avoidance branch of the die: the active colour
\* has a piece out of base, a previous final roll is recorded and the next
\* roll is the first of the turn
InRepeatAvoidance(room) ==
    /\ ~allPiecesInBase(room)
    /\ room.gameState.lastDiceValue # NullDice
    /\ room.gameState.isFirstRollOfTurn

\* the weights w are the base weights 15,15,15,15,15,25 with face k cut to 2
\* and the removed weight handed to the other five faces: 1.5 even shares to
\* face 6, 0.875 of an even share to each of the other four; the total is
\* 100 and face 6 is the heaviest
Redistributed(w, k) ==
    LET base == <<15 * Milli, 15 * Milli, 15 * Milli, 15 * Milli, 15 * Milli, 25 * Milli>>
        removed == base[k] - 2 * Milli
        extra == [f \in 1..6 |-> w[f] - base[f]]
    IN
    /\ w[k] = 2 * Milli
    /\ extra[6] * 10 = removed * 3
    /\ \A f \in (1..5) \ {k} : extra[f] * 40 = removed * 7
    /\ totalWeight(w) - w[k] = totalWeight(base) - base[k] + removed
    /\ totalWeight(w) = 100 * Milli
    /\ \A f \in 1..5 : w[6] > w[f]

C29_MoveRejections ==
    [][\A c \in Clients :
          (/\ Handled({"move_piece"}, c)
           /\ InStartedRoom(c)
           /\ ActivePlayer(RoomOf(c)) = c)
          => LET room == RoomOf(c)
                 pieces == room.gameState.pieces
                 r == room.gameState.diceValue
                 legal(k) == \/ pieces[k].position = -1 /\ r = 6
                             \/ /\ pieces[k].position >= 0
                                /\ pieces[k].position + r <= 57
                 \* the answer the claim gives to a move_piece for piece k
                 answer(k) ==
                     IF ~MoveOwed(room) THEN "Roll the dice first"
                     ELSE IF pieces[k].color # ActiveColour(room) THEN "Invalid piece"
                     ELSE IF ~legal(k) THEN "Invalid move"
                     ELSE ""
                 \* and to a move_piece for an id that names no piece
                 answerUnknown ==
                     IF ~MoveOwed(room) THEN "Roll the dice first" ELSE "Invalid piece"
             IN
             \* no piece of the room is answered otherwise than the claim says
             /\ \A k \in 1..Len(pieces) :
                   (last'.err # answer(k) /\ FindPiece(pieces, pieces[k].id) = k)
                   => ~HandleMovePiece(c, pieces[k].id)
             \* nor is an unknown id
             /\ last'.err # answerUnknown => ~HandleMovePiece(c, <<"bogus", 0>>)
             \* a rejection changes nothing and goes to the caller alone
             /\ last'.err # ""
                => /\ last'.ret = Null
                   /\ rooms' = rooms
                   /\ playerToRoom' = playerToRoom
                   /\ Len(sent') = 1
                   /\ sent'[1].to = c
                   /\ sent'[1].type = "error"
                   /\ sent'[1].message = last'.err]_vars

\* the active player, owing a move, has just been refused a piece that is
\* not theirs, and still owes the move
C29_Witness ==
    /\ last.op = "move_piece"
    /\ last.err = "Invalid piece"
    /\ InStartedRoom(last.client)
    /\ ActivePlayer(RoomOf(last.client)) = last.client
    /\ MoveOwed(RoomOf(last.client))

\* indices of the pieces the step sends back to base
SentToBase(code) ==
    {j \in 1..Len(rooms[code].gameState.pieces) :
        /\ rooms[code].gameState.pieces[j].position # -1
        /\ rooms'[code].gameState.pieces[j].position = -1}

\* positions in the router's output of the messages of this type to client
\* `to`
SentOfType(msgs, to, type) ==
    {i \in 1..Len(msgs) : msgs[i].to = to /\ msgs[i].type = type}

\* C30: an accepted move that sends a piece back to base makes the router
\* send every member of the room exactly one piece_captured, carrying that
\* piece as it stood before the capture and the room after the move, after
\* the room_updated of the same move; an accepted move that captures nothing
\* sends no piece_captured to anyone.
C30_CaptureNotification ==
    [][\A c \in Clients, code \in Codes :
          MoveAccepted(c, code)
          => LET pieces == rooms[code].gameState.pieces
                 members == {rooms'[code].players[i].id :
                                i \in 1..Len(rooms'[code].players)}
             IN
             /\ SentToBase(code) = {}
                => \A i \in 1..Len(sent') : sent'[i].type # "piece_captured"
             /\ SentToBase(code) # {}
                => /\ \A i \in 1..Len(sent') :
                         sent'[i].type = "piece_captured" => sent'[i].to \in members
                   /\ \A m \in members :
                         /\ Cardinality(SentOfType(sent', m, "piece_captured")) = 1
                         /\ SentOfType(sent', m, "room_updated") # {}
                         /\ \A i \in SentOfType(sent', m, "piece_captured") :
                               /\ \E j \in SentToBase(code) :
                                     sent'[i].capturedPiece = pieces[j]
                               /\ sent'[i].room = rooms'[code]
                               /\ \A u \in SentOfType(sent', m, "room_updated") :
                                     u < i]_vars

\* a move has just captured a piece and both members of the room were sent
\* the room_updated and then the piece_captured that names it
C30_Witness ==
    /\ Accepted("move_piece")
    /\ last.captured # NoPiece
    /\ Len(rooms[last.ret].players) = 2
    /\ Len(sent) = 4
    /\ sent[1].type = "room_updated" /\ sent[2].type = "room_updated"
    /\ sent[3].type = "piece_captured" /\ sent[4].type = "piece_captured"
    /\ sent[3].to # sent[4].to
    /\ sent[3].capturedPiece = last.captured
    /\ sent[4].capturedPiece = last.captured

\* a display name of 1 to 20 characters
ValidName(name) == Len(name) \in 1..20

\* C25: every player of every room has a display name of 1 to 20
\* characters.
C25_NamesWithinLength ==
    \A code \in DOMAIN rooms :
        \A i \in 1..Len(rooms[code].players) :
            ValidName(rooms[code].players[i].name)

\* the step handles a malformed message of clientId: text that does not
\* parse, a message without the payload its type needs, or a create or join
\* whose payload carries none of its fields
Malformed(clientId) ==
    \/ last'.client = clientId /\ last'.op \in {"unparseable", "no_payload"}
    \/ /\ Handled({"create"}, clientId)
       /\ HandleCreate(clientId, Undefined, Undefined)
    \/ /\ Handled({"join"}, clientId)
       /\ HandleJoin(clientId, Undefined, Undefined)

\* C26: a malformed message is answered with one error, "Invalid message
\* format", to its sender, and changes no room and no participant-to-room
\* mapping.
C26_MalformedIsRejected ==
    [][\A c \in Clients :
          Malformed(c) =>
             /\ sent' = sendError(c, "Invalid message format")
             /\ rooms' = rooms
             /\ playerToRoom' = playerToRoom]_vars

\* C40: a roll_dice or move_piece of a participant who is in no room, or
\* whose room's game has not started, changes no room and no mapping and
\* makes the router send nothing, neither a snapshot nor an error.
C40_SilentOutsideGame ==
    [][\A c \in Clients :
          (Handled({"roll_dice", "move_piece"}, c) /\ ~InStartedRoom(c))
          => /\ sent' = <<>>
             /\ last'.err = ""
             /\ last'.ret = Null
             /\ rooms' = rooms
             /\ playerToRoom' = playerToRoom]_vars

\* a member of a room whose game has not started has just sent a roll_dice
\* or a move_piece, and nothing was sent back
C40_Witness ==
    /\ last.op \in {"roll_dice", "move_piece"}
    /\ HasRoom(last.client)
    /\ ~RoomOf(last.client).gameState.started
    /\ last.ret = Null
    /\ sent = <<>>

\* the piece stands where it cannot be captured: in base, on its home path
\* or finished (position >= 51), or on one of the eight safe cells of the
\* track
StandsSafe(piece) ==
    \/ piece.position = -1
    \/ piece.position >= 51
    \/ /\ piece.position \in 0..50
       /\ (piece.position + PLAYER_START_OFFSETS[piece.color]) % 52
          \in {0, 8, 13, 21, 26, 34, 39, 47}

\* C39: between handled messages the safe flag of every piece agrees with
\* its position: it is true if and only if the position is -1, is >= 51
\* (99 included), or (position + colour offset) mod 52 is one of
\* {0, 8, 13, 21, 26, 34, 39, 47}.
C39_SafeFlagAgrees ==
    \A code \in DOMAIN rooms :
        \A i \in 1..Len(rooms[code].gameState.pieces) :
            rooms[code].gameState.pieces[i].isSafe
            <=> StandsSafe(rooms[code].gameState.pieces[i])

\* a move has just been accepted and left the room with a piece on an
\* unsafe cell of the track (flag false) and a piece on the home path or
\* on a safe cell of the track (flag true)
C39_Witness ==
    /\ Accepted("move_piece")
    /\ \E i, j \in 1..Len(rooms[last.ret].gameState.pieces) :
          /\ rooms[last.ret].gameState.pieces[i].position \in 0..50
          /\ ~rooms[last.ret].gameState.pieces[i].isSafe
          /\ rooms[last.ret].gameState.pieces[j].position \in 0..56
          /\ rooms[last.ret].gameState.pieces[j].isSafe

\* C38: once the winner field of a room holds a colour it holds that colour
\* in every later state of the room: no step resets it to null or replaces
\* it by another colour.
C38_WinnerIsFinal ==
    [][\A code \in (DOMAIN rooms) \cap (DOMAIN rooms') :
          rooms[code].gameState.winner # Null
          => rooms'[code].gameState.winner = rooms[code].gameState.winner]_vars

\* C37: once the game of a room has started, a choose_color of a member
\* leaves the colour of every player of the room as it was.
C37_ColoursFixedAfterStart ==
    [][\A c \in Clients :
          (Handled({"choose_color"}, c) /\ InStartedRoom(c))
          => LET code == playerToRoom[c] IN
             /\ code \in DOMAIN rooms'
             /\ Len(rooms'[code].players) = Len(rooms[code].players)
             /\ \A i \in 1..Len(rooms[code].players) :
                   rooms'[code].players[i].color = rooms[code].players[i].color]_vars

\* C34: in a started room a leave or disconnect of a member who is not the
\* active player leaves the same participant at currentTurnIndex as before.
C34_LeaveKeepsActivePlayer ==
    [][\A c \in Clients :
          (/\ Handled({"leave", "close"}, c)
           /\ InStartedRoom(c)
           /\ ActivePlayer(RoomOf(c)) # NoClient
           /\ ActivePlayer(RoomOf(c)) # c)
          => LET code == playerToRoom[c] IN
             /\ code \in DOMAIN rooms'
             /\ ActivePlayer(rooms'[code]) = ActivePlayer(rooms[code])]_vars

\* C35: from the accepted roll_dice that leaves a move owed to the accepted
\* move_piece that uses the roll the active participant does not change: a
\* step that finds a move owed in a room and leaves it owed leaves the same
\* participant at currentTurnIndex, so a piece is never moved with a roll
\* of another participant.
C35_RollAndMoveBySameParticipant ==
    [][\A code \in (DOMAIN rooms) \cap (DOMAIN rooms') :
          (/\ rooms[code].gameState.started
           /\ MoveOwed(rooms[code])
           /\ MoveOwed(rooms'[code]))
          => ActivePlayer(rooms'[code]) = ActivePlayer(rooms[code])]_vars

\* a roll_dice of the participant at currentTurnIndex would be accepted
ActiveCanRoll(room) ==
    /\ ActivePlayer(room) # NoClient
    /\ \E roll \in 1..6 :
          LET r == rollDice(ActivePlayer(room), roll) IN
          r.err = "" /\ r.ret = room.code

\* a move_piece of the participant at currentTurnIndex would be accepted for
\* one of the pieces of their colour
ActiveCanMove(room) ==
    /\ ActivePlayer(room) # NoClient
    /\ \E i \in 1..Len(room.gameState.pieces) :
          /\ room.gameState.pieces[i].color = ActiveColour(room)
          /\ LET r == movePiece(ActivePlayer(room), room.gameState.pieces[i].id) IN
             r.err = "" /\ r.ret = room.code

\* C36: a started room without a winner that still has players is never
\* stuck: either no move is owed and a roll_dice of the active player would
\* be accepted, or a move is owed and a piece of the active player's colour
\* has a legal move for the recorded roll.
C36_NeverStuck ==
    \A code \in DOMAIN rooms :
        (/\ rooms[code].gameState.started
         /\ rooms[code].gameState.winner = Null
         /\ Len(rooms[code].players) > 0)
        => \/ ~rooms[code].gameState.waitingForMove /\ ActiveCanRoll(rooms[code])
           \/ rooms[code].gameState.waitingForMove /\ ActiveCanMove(rooms[code])

\* the codes of the rooms the step creates, deletes or changes
RoomsTouched ==
    {code \in (DOMAIN rooms) \cup (DOMAIN rooms') :
        \/ code \notin DOMAIN rooms
        \/ code \notin DOMAIN rooms'
        \/ rooms'[code] # rooms[code]}

EntriesOf(clientId) ==
    UNION {{<<code, i>> : i \in {j \in 1..Len(rooms[code].players) :
                                    rooms[code].players[j].id = clientId}} :
           code \in DOMAIN rooms}

\* C33: in every reachable state a participant has at most one entry across
\* the player lists of all rooms, and is listed in a room if and only if
\* the participant-to-room mapping maps it to that room.
C33_RegistryConsistent ==
    \A c \in Clients :
        /\ Cardinality(EntriesOf(c)) <= 1
        /\ \A code \in DOMAIN rooms :
              (\E e \in EntriesOf(c) : e[1] = code)
              <=> (c \in DOMAIN playerToRoom /\ playerToRoom[c] = code)

\* the room snapshots among the messages of one event: every response but
\* an error carries payload.room
SnapshotsOf(msgs) == {i \in 1..Len(msgs) : msgs[i].type # "error"}

\* C31: messages for the same room never interleave: every step handles
\* exactly one message or disconnect to completion, so every room snapshot
\* sent in the step shows one room, the room of the event, with all the
\* changes of the operation applied, exactly as the registry holds it when
\* the next event is taken up; no participant is sent a partially applied
\* operation.
C31_HandledToCompletion ==
    [][/\ stepsLeft' = stepsLeft - 1
       /\ last'.op # "none"
       /\ \A i \in SnapshotsOf(sent') :
             /\ sent'[i].room.code \in DOMAIN rooms'
             /\ sent'[i].room = rooms'[sent'[i].room.code]
             /\ sent'[i].room.code = last'.ret]_vars

\* a capturing move has just been handled: the mover's piece advanced, the
\* captured piece went home, the dice was cleared, and all four messages
\* of the event (two room_updated, two piece_captured) carry that one room
C31_Witness ==
    /\ Accepted("move_piece")
    /\ last.captured # NoPiece
    /\ Cardinality(SnapshotsOf(sent)) = 4
    /\ \A i \in SnapshotsOf(sent) : sent[i].room = rooms[last.ret]
    /\ rooms[last.ret].gameState.waitingForMove = FALSE
    /\ rooms[last.ret].gameState.diceValue = NullDice
    /\ \E k \in 1..Len(rooms[last.ret].gameState.pieces) :
          /\ rooms[last.ret].gameState.pieces[k].id = last.captured.id
          /\ rooms[last.ret].gameState.pieces[k].position = -1
          /\ last.captured.position # -1

=============================================================================
